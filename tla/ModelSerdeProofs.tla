-------------------------- MODULE ModelSerdeProofs --------------------------
(***************************************************************************)
(* Theorems about ModelSerde for any crate: the formats reach the models   *)
(* of the bodies, and the attributes of a field name functions that exist, *)
(* compile and take the type of the field.                                 *)
(***************************************************************************)
EXTENDS ModelSerde, FiniteSetTheorems, SequenceTheorems, WellFoundedInduction, TLAPS

----------------------------------------------------------------------------
(* Induction over the naturals, and what FlattenSeq returns. *)

LEMMA SetInduction ==
    ASSUME NEW T, 0 \in T, \A n \in Nat : n \in T => n + 1 \in T
    PROVE  Nat \subseteq T
<1> DEFINE less == OpToRel(<, Nat)
           rest == Nat \ T
<1>1. SUFFICES ASSUME rest # {}
               PROVE  FALSE
  OBVIOUS
<1>2. IsWellFoundedOn(less, Nat)
  BY NatLessThanWellFounded
<1>3. \A x, y \in Nat : <<x, y>> \in less <=> x < y
  BY DEF OpToRel
<1>4. rest \subseteq Nat
  OBVIOUS
<1> HIDE DEF less
<1>5. PICK m \in rest : \A k \in rest : <<k, m>> \notin less
  BY <1>1, <1>2, <1>4, WFMin
<1>6. m \in Nat \ {0} /\ m - 1 \in Nat /\ (m - 1) + 1 = m
  OBVIOUS
<1>7. m - 1 \in rest
  BY <1>6
<1>8. m - 1 < m
  BY <1>6
<1>9. <<m - 1, m>> \in less
  BY <1>3, <1>6, <1>8
<1>10. QED
  BY <1>5, <1>7, <1>9

IsFlattening(f, ss, n) == f = [i \in 1..n |-> IF i = 1 THEN ss[i] ELSE f[i - 1] \o ss[i]]

LEMMA FlatteningExists ==
    ASSUME NEW ss, NEW n \in Nat
    PROVE  \E f : IsFlattening(f, ss, n)
<1> DEFINE T == {m \in Nat : \E f : IsFlattening(f, ss, m)}
<1>1. 0 \in T
  <2>1. IsFlattening(<<>>, ss, 0)
    BY DEF IsFlattening
  <2>2. QED
    BY <2>1
<1>2. ASSUME NEW m \in Nat, m \in T
      PROVE  m + 1 \in T
  <2>1. PICK f : IsFlattening(f, ss, m)
    BY <1>2
  <2> DEFINE Step(i, v) == IF i = 1 THEN ss[i] ELSE v \o ss[i]
             g == [i \in 1..(m + 1) |-> IF i = m + 1 THEN Step(i, f[i - 1]) ELSE f[i]]
  <2>2. \A i \in 1..m : f[i] = Step(i, f[i - 1])
    BY <2>1 DEF IsFlattening
  <2>3. ASSUME NEW i \in 1..(m + 1)
        PROVE  g[i] = Step(i, g[i - 1])
    <3>1. CASE i = 1
      <4>1. g[i] = IF i = m + 1 THEN Step(i, f[i - 1]) ELSE f[i]
        OBVIOUS
      <4>2. i # m + 1 => i \in 1..m
        OBVIOUS
      <4>3. QED
        BY <2>2, <3>1, <4>1, <4>2
    <3>2. CASE i # 1
      <4>1. i - 1 \in 1..m /\ i - 1 \in 1..(m + 1) /\ i - 1 # m + 1
        BY <3>2
      <4>2. g[i - 1] = f[i - 1]
        BY <4>1
      <4>3. g[i] = Step(i, f[i - 1])
        <5>1. CASE i = m + 1
          BY <5>1
        <5>2. CASE i # m + 1
          BY <2>2, <5>2
        <5>3. QED
          BY <5>1, <5>2
      <4>4. QED
        BY <4>2, <4>3
    <3>3. QED
      BY <3>1, <3>2
  <2> HIDE DEF Step
  <2>4. g = [i \in 1..(m + 1) |-> g[i]]
    OBVIOUS
  <2> HIDE DEF g
  <2>5. g = [i \in 1..(m + 1) |-> Step(i, g[i - 1])]
    BY <2>3, <2>4
  <2>6. IsFlattening(g, ss, m + 1)
    BY <2>5 DEF IsFlattening, Step
  <2>7. QED
    BY <2>6
<1>3. Nat \subseteq T
  <2> HIDE DEF T
  <2>1. QED
    BY <1>1, <1>2, SetInduction
<1>4. QED
  BY <1>3

\* The flattened sequence is that of the last index.
LEMMA FlattenIs ==
    ASSUME NEW ss, Len(ss) \in Nat \ {0}
    PROVE  \E f : IsFlattening(f, ss, Len(ss)) /\ FlattenSeq(ss) = f[Len(ss)]
<1> DEFINE n == Len(ss)
           f == CHOOSE g : g = [i \in 1..n |-> IF i = 1 THEN ss[i] ELSE g[i - 1] \o ss[i]]
<1>1. IsFlattening(f, ss, n)
  BY FlatteningExists DEF IsFlattening
<1>2. FlattenSeq(ss) = f[n]
  BY DEF FlattenSeq
<1>3. QED
  BY <1>1, <1>2

LEMMA FlattenedOne == ASSUME NEW x PROVE FlattenSeq(<<x>>) = x
<1>1. Len(<<x>>) = 1 /\ Len(<<x>>) \in Nat \ {0}
  OBVIOUS
<1>2. PICK f : IsFlattening(f, <<x>>, 1) /\ FlattenSeq(<<x>>) = f[1]
  BY <1>1, FlattenIs
<1>3. f[1] = <<x>>[1]
  BY <1>2 DEF IsFlattening
<1>4. QED
  BY <1>2, <1>3

LEMMA Flattened ==
    ASSUME NEW S, NEW n \in Nat, NEW ss \in [1..n -> Seq(S)]
    PROVE  /\ FlattenSeq(ss) \in Seq(S)
           /\ \A x : x \in ToSet(FlattenSeq(ss)) <=> \E i \in 1..n : x \in ToSet(ss[i])
<1>1. Len(ss) = n
  OBVIOUS
<1>2. CASE n = 0
  <2>1. FlattenSeq(ss) = <<>>
    BY <1>1, <1>2 DEF FlattenSeq
  <2>2. ToSet(<<>>) = {}
    BY DEF ToSet
  <2>3. QED
    BY <1>2, <2>1, <2>2, EmptySeq
<1>3. CASE n # 0
  <2>1. PICK f : IsFlattening(f, ss, n) /\ FlattenSeq(ss) = f[n]
    BY <1>1, <1>3, FlattenIs
  <2>2. \A i \in 1..n : f[i] = IF i = 1 THEN ss[i] ELSE f[i - 1] \o ss[i]
    BY <2>1 DEF IsFlattening
  <2> DEFINE P(m) == m \in 1..n => /\ f[m] \in Seq(S)
                                  /\ \A x : x \in ToSet(f[m]) <=> \E i \in 1..m : x \in ToSet(ss[i])
             T == {m \in Nat : P(m)}
  <2>3. 0 \in T
    OBVIOUS
  <2>4. ASSUME NEW m \in Nat, m \in T
        PROVE  m + 1 \in T
    <3>1. SUFFICES ASSUME m + 1 \in 1..n
                   PROVE  /\ f[m + 1] \in Seq(S)
                          /\ \A x : x \in ToSet(f[m + 1]) <=> \E i \in 1..(m + 1) : x \in ToSet(ss[i])
      OBVIOUS
    <3>2. ss[m + 1] \in Seq(S)
      BY <3>1
    <3>3. CASE m = 0
      <4>1. f[m + 1] = ss[m + 1] /\ m + 1 = 1
        BY <2>2, <3>1, <3>3
      <4>2. \A i \in 1..(m + 1) : i = m + 1
        BY <3>3
      <4>3. QED
        BY <3>2, <4>1, <4>2
    <3>4. CASE m # 0
      <4>1. m \in 1..n /\ (m + 1) - 1 = m /\ m + 1 # 1
        BY <3>1, <3>4
      <4>2. f[m + 1] = f[m] \o ss[m + 1]
        BY <2>2, <3>1, <4>1
      <4>3. f[m] \in Seq(S) /\ \A x : x \in ToSet(f[m]) <=> \E i \in 1..m : x \in ToSet(ss[i])
        BY <2>4, <4>1
      <4>4. f[m + 1] \in Seq(S) /\ ToSet(f[m + 1]) = ToSet(f[m]) \cup ToSet(ss[m + 1])
        <5>1. Range(f[m] \o ss[m + 1]) = Range(f[m]) \cup Range(ss[m + 1])
          BY <3>2, <4>3, RangeConcatenation
        <5>2. \A s : ToSet(s) = Range(s)
          BY DEF ToSet, Range
        <5>3. QED
          BY <3>2, <4>2, <4>3, <5>1, <5>2, ConcatProperties
      <4>5. \A i : i \in 1..(m + 1) <=> i \in 1..m \/ i = m + 1
        OBVIOUS
      <4>6. QED
        BY <4>3, <4>4, <4>5
    <3>5. QED
      BY <3>3, <3>4
  <2>5. Nat \subseteq T
    <3> HIDE DEF T
    <3>1. QED
      BY <2>3, <2>4, SetInduction
  <2>6. P(n)
    BY <2>5
  <2>7. QED
    BY <1>3, <2>1, <2>6
<1>4. QED
  BY <1>2, <1>3

LEMMA ConcatSet ==
    ASSUME NEW S, NEW s \in Seq(S), NEW t \in Seq(S)
    PROVE  s \o t \in Seq(S) /\ ToSet(s \o t) = ToSet(s) \cup ToSet(t)
<1>1. Range(s \o t) = Range(s) \cup Range(t)
  BY RangeConcatenation
<1>2. \A u : ToSet(u) = Range(u)
  BY DEF ToSet, Range
<1>3. s \o t \in Seq(S)
  BY ConcatProperties
<1>4. QED
  BY <1>1, <1>2, <1>3

----------------------------------------------------------------------------
(* The types of what is collected and emitted. *)

Formats == {"json", "xml"}

Bodies(c) == [type : Types(c), format : Formats, from : Origins]

FieldTypes(c) ==
    [name : STRING, serde : STRING, type : Types(c), optional : BOOLEAN, readOnly : BOOLEAN,
     xmlKind : {"", "attribute", "unwrappedList", "text"}, emptyAsNull : BOOLEAN, deserializeWith : STRING]

\* What the attribute of a field may be, and which functions it may name.
AttributesOf(c) ==
    {{}} \cup {SerdeParams(d[1], d[2], d[3]) : d \in FieldTypes(c) \X Formats \X BOOLEAN}

HelperNames(c) == UNION {NamedIn(params, module) : params \in AttributesOf(c), module \in {"models_serde", "xml_helpers"}}

HelperMaps(c) == UNION {[S -> FieldTypes(c)] : S \in SUBSET HelperNames(c)}

TypeInv ==
    /\ crate \in Crates
    /\ bodies \in Seq(Bodies(crate))
    /\ todo \in Seq(Types(crate))
    /\ formats \in [DOMAIN formats -> Formats] /\ DOMAIN formats \subseteq DOMAIN crate.models
    /\ modules \in Seq(Seq(DOMAIN crate.models))
    /\ fields \in Seq((DOMAIN crate.models) \X FieldTypes(crate))
    /\ attrs \in [DOMAIN attrs -> AttributesOf(crate)] /\ DOMAIN attrs \subseteq (DOMAIN crate.models) \X STRING
    /\ serdeHelpers \in HelperMaps(crate) /\ xmlListWrappers \in HelperMaps(crate)
    /\ emitted \in Seq([serde : HelperMaps(crate), xml : HelperMaps(crate)])
    /\ pc = "fields" => modules # <<>>
    /\ pc \in {"formats", "failed", "modules", "fields", "ready", "sent", "answered", "read"}

LEMMA PropertyTyped ==
    ASSUME NEW c, NEW p \in Properties(c)
    PROVE  /\ p.name \in STRING /\ p.wire \in STRING /\ p.type \in Types(c) /\ p.optional \in BOOLEAN
           /\ p.readOnly \in BOOLEAN /\ p.xml \in {"", "attribute", "unwrapped"} /\ p.xmlName \in STRING
           /\ p.emptyAsNull \in BOOLEAN /\ p.deserializeWith \in STRING /\ p.pageItems \in BOOLEAN
  BY DEF Properties

\* Whatever wraps a type, it names the same; only models and unions are boxed.
LEMMA Rewrapped ==
    ASSUME NEW c, NEW t \in Types(c), NEW wraps \in Seq(Wrappers), Contains(wraps, "box") => Contains(t.wraps, "box")
    PROVE  [t EXCEPT !.wraps = wraps] \in Types(c)
  BY DEF Types

LEMMA TypeParts ==
    ASSUME NEW c, NEW t \in Types(c)
    PROVE  /\ t.wraps \in Seq(Wrappers) /\ t.leaf.kind \in Kinds /\ t.leaf.enc \in STRING /\ t.leaf.of \in Seq(STRING)
           /\ t = [wraps |-> t.wraps, leaf |-> t.leaf]
           /\ t.leaf.enc \in Encodings(t.leaf.kind)
           /\ Contains(t.wraps, "box") => t.leaf.kind \in {"model", "discriminatedUnion"}
           /\ t.leaf.kind = "model" => t.leaf.of[1] \in DOMAIN c.models
           /\ t.leaf.kind = "enum" => t.leaf.of[1] \in DOMAIN c.enums
           /\ t.leaf.kind = "untagged" => t.leaf.of[1] \in DOMAIN c.untagged
  BY DEF Types

LEMMA WrappedIn ==
    ASSUME NEW c, NEW t \in Types(c), NEW w \in Wrappers \ {"box"}
    PROVE  [t EXCEPT !.wraps = <<w>> \o @] \in Types(c)
<1> DEFINE s == <<w>> \o t.wraps
<1>1. t.wraps \in Seq(Wrappers) /\ <<w>> \in Seq(Wrappers)
  BY TypeParts
<1>2. /\ s \in Seq(Wrappers) /\ Len(s) = Len(t.wraps) + 1 /\ Len(t.wraps) \in Nat
      /\ \A i \in 1..Len(s) : s[i] = IF i = 1 THEN w ELSE t.wraps[i - 1]
  BY <1>1, ConcatProperties, LenProperties
<1>3. Contains(s, "box") => Contains(t.wraps, "box")
  <2>1. ASSUME Contains(s, "box")
        PROVE  Contains(t.wraps, "box")
    <3>1. PICK i \in 1..Len(s) : s[i] = "box"
      BY <2>1 DEF Contains
    <3>2. i # 1 /\ t.wraps[i - 1] = "box" /\ i - 1 \in 1..Len(t.wraps)
      BY <1>2, <3>1
    <3>3. QED
      BY <3>2 DEF Contains
  <2>2. QED
    BY <2>1
<1>4. [t EXCEPT !.wraps = s] \in Types(c)
  <2> HIDE DEF s
  <2>1. QED
    BY <1>2, <1>3, Rewrapped
<1>5. [t EXCEPT !.wraps = <<w>> \o @] = [t EXCEPT !.wraps = s]
  BY TypeParts
<1>6. QED
  BY <1>4, <1>5

LEMMA GetModelFieldTyped ==
    ASSUME NEW c, NEW p \in Properties(c), NEW usage
    PROVE  GetModelField(usage, p) \in FieldTypes(c)
<1>1. (IF (NotSpreadOnly(usage) \/ p.optional) /\ ~p.pageItems THEN Option(p.type) ELSE p.type) \in Types(c)
  <2>1. p.type \in Types(c) /\ "option" \in Wrappers
    BY PropertyTyped DEF Wrappers
  <2>2. Option(p.type) \in Types(c)
    BY <2>1, WrappedIn DEF Option
  <2>3. QED
    BY <2>1, <2>2
<1>2. XMLKind(p) \in {"", "attribute", "unwrappedList", "text"}
  BY DEF XMLKind
<1>3. QED
  BY <1>1, <1>2, PropertyTyped DEF GetModelField, FieldTypes

LEMMA CrateTyped ==
    ASSUME TypeInv
    PROVE  /\ IsCrate(crate)
           /\ \A m \in DOMAIN crate.models :
                 /\ Model(m).props \in Seq(Properties(crate)) /\ Model(m).usage \subseteq {"input", "output", "spread"}
                 /\ Model(m).visible \in BOOLEAN /\ Model(m).base \in BOOLEAN /\ Model(m).additional \in BOOLEAN
                 /\ Model(m).discriminator \in STRING /\ Model(m).xmlName \in STRING
<1>1. IsCrate(crate)
  BY SerdeAssumption DEF TypeInv
<1>2. crate.models \in [DOMAIN crate.models -> Models(crate)]
  BY <1>1 DEF IsCrate
<1>3. QED
  BY <1>1, <1>2 DEF Model, Models

\* The field that is made of the property at i.
FieldAt(m, i) == LET f == GetModelField(Model(m).usage, Model(m).props[i])
                 IN IF Model(m).base THEN [f EXCEPT !.type.wraps = <<"ref">> \o @] ELSE f

LEMMA FieldsTyped ==
    ASSUME TypeInv, NEW m \in DOMAIN crate.models
    PROVE  /\ Fields(m) \in Seq(FieldTypes(crate))
           /\ DOMAIN Fields(m) = DOMAIN Model(m).props /\ Len(Fields(m)) = Len(Model(m).props)
           /\ \A i \in DOMAIN Fields(m) : Fields(m)[i] = FieldAt(m, i) /\ FieldAt(m, i) \in FieldTypes(crate)
<1>1. Model(m).props \in Seq(Properties(crate)) /\ Model(m).base \in BOOLEAN
  BY CrateTyped
<1>2. ASSUME NEW i \in DOMAIN Model(m).props
      PROVE  FieldAt(m, i) \in FieldTypes(crate)
  <2> DEFINE f == GetModelField(Model(m).usage, Model(m).props[i])
  <2>1. f \in FieldTypes(crate)
    BY <1>1, GetModelFieldTyped, LenProperties, ElementOfSeq
  <2>2. f.type \in Types(crate)
    BY <2>1 DEF FieldTypes
  <2>3. [f.type EXCEPT !.wraps = <<"ref">> \o @] \in Types(crate)
    BY <2>2, WrappedIn DEF Wrappers
  <2>4. [f EXCEPT !.type.wraps = <<"ref">> \o @] = [f EXCEPT !.type = [f.type EXCEPT !.wraps = <<"ref">> \o @]]
    OBVIOUS
  <2> HIDE DEF f
  <2>5. [f EXCEPT !.type = [f.type EXCEPT !.wraps = <<"ref">> \o @]] \in FieldTypes(crate)
    BY <2>1, <2>3 DEF FieldTypes
  <2>6. [f EXCEPT !.type.wraps = <<"ref">> \o @] \in FieldTypes(crate)
    BY <2>4, <2>5
  <2>7. QED
    BY <2>1, <2>6 DEF FieldAt, f
<1>3. Fields(m) = [i \in DOMAIN Model(m).props |-> FieldAt(m, i)]
  BY DEF Fields, ModelFields, FieldAt
<1>4. DOMAIN Model(m).props = 1..Len(Model(m).props) /\ Len(Model(m).props) \in Nat
  BY <1>1, LenProperties
<1> HIDE DEF FieldAt
<1>5. QED
  BY <1>2, <1>3, <1>4

----------------------------------------------------------------------------
(* Sequences as sets. *)

LEMMA ElementsOfSeq ==
    ASSUME NEW S, NEW s \in Seq(S)
    PROVE  /\ Elements(s) \subseteq S
           /\ Elements(s) = {} <=> s = <<>>
           /\ Elements(s) = ToSet(s)
<1>1. DOMAIN s = 1..Len(s) /\ Len(s) \in Nat /\ \A i \in 1..Len(s) : s[i] \in S
  BY LenProperties, ElementOfSeq
<1>2. s = <<>> <=> Len(s) = 0
  BY <1>1, EmptySeq
<1>3. Elements(s) = {s[i] : i \in 1..Len(s)} /\ Elements(s) = ToSet(s)
  BY <1>1 DEF Elements, ToSet
<1>4. 1..Len(s) = {} <=> Len(s) = 0
  BY <1>1
<1>5. QED
  BY <1>1, <1>2, <1>3, <1>4

LEMMA HeadAndTail ==
    ASSUME NEW S, NEW s \in Seq(S), s # <<>>
    PROVE  /\ Head(s) \in S /\ Tail(s) \in Seq(S) /\ Len(Tail(s)) = Len(s) - 1 /\ Len(s) \in Nat \ {0}
           /\ Head(s) = s[1] /\ \A i \in 1..Len(Tail(s)) : Tail(s)[i] = s[i + 1]
           /\ Elements(s) = {Head(s)} \cup Elements(Tail(s))
<1>1. /\ Head(s) \in S /\ Tail(s) \in Seq(S) /\ Len(Tail(s)) = Len(s) - 1 /\ Len(s) \in Nat \ {0}
      /\ Head(s) = s[1] /\ \A i \in 1..Len(Tail(s)) : Tail(s)[i] = s[i + 1]
  BY HeadTailProperties, EmptySeq
<1>2. DOMAIN s = 1..Len(s) /\ DOMAIN Tail(s) = 1..(Len(s) - 1)
  BY <1>1, LenProperties
<1>3. ASSUME NEW x
      PROVE  x \in Elements(s) <=> x \in {Head(s)} \cup Elements(Tail(s))
  <2>1. ASSUME NEW i \in 1..Len(s), x = s[i]
        PROVE  x \in {Head(s)} \cup Elements(Tail(s))
    <3>1. CASE i = 1
      BY <1>1, <2>1, <3>1
    <3>2. CASE i # 1
      <4>1. i - 1 \in 1..(Len(s) - 1) /\ (i - 1) + 1 = i
        BY <1>1, <3>2
      <4>2. Tail(s)[i - 1] = s[i]
        BY <1>1, <4>1
      <4>3. QED
        BY <1>2, <2>1, <4>1, <4>2 DEF Elements
    <3>3. QED
      BY <3>1, <3>2
  <2>2. ASSUME NEW i \in 1..(Len(s) - 1), x = Tail(s)[i]
        PROVE  x \in Elements(s)
    <3>1. i + 1 \in 1..Len(s) /\ Tail(s)[i] = s[i + 1]
      BY <1>1
    <3>2. QED
      BY <1>2, <2>2, <3>1 DEF Elements
  <2>3. Head(s) \in Elements(s)
    <3>1. 1 \in 1..Len(s)
      BY <1>1
    <3>2. QED
      BY <1>1, <1>2, <3>1 DEF Elements
  <2>4. x \in Elements(s) => \E i \in 1..Len(s) : x = s[i]
    BY <1>2 DEF Elements
  <2>5. x \in Elements(Tail(s)) => \E i \in 1..(Len(s) - 1) : x = Tail(s)[i]
    BY <1>2 DEF Elements
  <2>6. QED
    BY <2>1, <2>2, <2>3, <2>4, <2>5
<1>4. QED
  BY <1>1, <1>3

LEMMA ElementsOfConcat ==
    ASSUME NEW S, NEW s \in Seq(S), NEW t \in Seq(S)
    PROVE  s \o t \in Seq(S) /\ Elements(s \o t) = Elements(s) \cup Elements(t)
<1>1. s \o t \in Seq(S)
  BY ConcatProperties
<1>2. Elements(s \o t) = ToSet(s \o t) /\ Elements(s) = ToSet(s) /\ Elements(t) = ToSet(t)
  BY DEF Elements, ToSet
<1>3. ToSet(s \o t) = ToSet(s) \cup ToSet(t)
  BY ConcatSet
<1>4. QED
  BY <1>1, <1>2, <1>3

LEMMA ElementsOfAppend ==
    ASSUME NEW S, NEW s \in Seq(S), NEW x \in S
    PROVE  Append(s, x) \in Seq(S) /\ Elements(Append(s, x)) = Elements(s) \cup {x}
<1>1. <<x>> \in Seq(S) /\ Elements(<<x>>) = {x}
  BY DEF Elements
<1>2. Append(s, x) = s \o <<x>>
  BY AppendIsConcat
<1>3. s \o <<x>> \in Seq(S) /\ Elements(s \o <<x>>) = Elements(s) \cup Elements(<<x>>)
  BY <1>1, ElementsOfConcat
<1>4. QED
  BY <1>1, <1>2, <1>3

----------------------------------------------------------------------------
(* The formats. *)

\* How many bodies have been taken; the last of these is being collected.
Taken == Len(crate.bodies) - Len(bodies)

BodiesTaken ==
    /\ Len(bodies) <= Len(crate.bodies)
    /\ \A i \in 1..Len(bodies) : bodies[i] = crate.bodies[Taken + i]
    /\ todo # <<>> => Taken > 0
    /\ pc \notin {"formats", "failed"} => todo = <<>> /\ bodies = <<>>

AskedIn == [g \in Formats |-> Asked(g)]

\* A model has the format of a body it is in, and what is to be done as well.
FormatsSound ==
    /\ \A m \in DOMAIN formats : m \in AskedIn[formats[m]]
    /\ \A t \in Elements(todo) : PlainLeads(t) \subseteq AskedIn[Format]

\* The models that are known in a format, or are to be done in it.
Handled == {x \in (DOMAIN crate.models) \X Formats :
              \/ Known(x[1]) /\ formats[x[1]] = x[2]
              \/ x[2] = Format /\ \E u \in Elements(todo) : x[1] \in PlainLeads(u)}

FormatsComplete ==
    /\ \A i \in 1..Taken : Collected(crate.bodies[i]) # <<>> =>
          PlainLeads(crate.bodies[i].type) \X {crate.bodies[i].format} \subseteq Handled
    /\ \A m \in DOMAIN formats : \A f \in Elements(Fields(m)) : PlainLeads(f.type) \X {formats[m]} \subseteq Handled

LEMMA BodiesTyped ==
    ASSUME TypeInv
    PROVE  /\ crate.bodies \in Seq(Bodies(crate)) /\ Len(crate.bodies) \in Nat /\ Len(bodies) \in Nat
           /\ \A i \in 1..Len(crate.bodies) : crate.bodies[i].type \in Types(crate) /\ crate.bodies[i].format \in Formats
           /\ Elements(crate.bodies) = {crate.bodies[i] : i \in 1..Len(crate.bodies)}
<1>1. crate.bodies \in Seq(Bodies(crate))
  BY CrateTyped DEF IsCrate, Bodies, Formats
<1>2. bodies \in Seq(Bodies(crate))
  BY DEF TypeInv
<1>3. DOMAIN crate.bodies = 1..Len(crate.bodies) /\ \A i \in 1..Len(crate.bodies) : crate.bodies[i] \in Bodies(crate)
  BY <1>1, LenProperties, ElementOfSeq
<1>4. QED
  BY <1>1, <1>2, <1>3, LenProperties DEF Bodies, Elements

LEMMA FormatTyped ==
    ASSUME TypeInv, BodiesTaken, todo # <<>>
    PROVE  Format \in Formats /\ Taken \in 1..Len(crate.bodies) /\ Format = crate.bodies[Taken].format
<1>1. Taken \in 1..Len(crate.bodies)
  BY BodiesTyped DEF BodiesTaken, Taken
<1>2. QED
  BY <1>1, BodiesTyped DEF Format, Taken

\* What a type leads to plainly is a model it leads to.
LEMMA PlainLeadsAreLeads ==
    ASSUME NEW t \in Types(crate)
    PROVE  PlainLeads(t) \subseteq Leads(crate, t) /\ PlainLeads(t) \subseteq DOMAIN crate.models
<1>1. CASE Contains(t.wraps, "box")
  BY <1>1 DEF PlainLeads, UnwrapType
<1>2. CASE ~Contains(t.wraps, "box")
  <2>1. UnwrapType(t) = t.leaf
    BY <1>2 DEF UnwrapType
  <2>2. CASE t.leaf.kind = "model"
    BY <2>1, <2>2, TypeParts DEF PlainLeads, Leads
  <2>3. CASE t.leaf.kind # "model"
    BY <2>1, <2>3 DEF PlainLeads
  <2>4. QED
    BY <2>2, <2>3
<1>3. QED
  BY <1>1, <1>2

LEMMA FieldIn ==
    ASSUME TypeInv, NEW m \in DOMAIN crate.models, NEW f \in Elements(Fields(m))
    PROVE  f \in FieldTypes(crate) /\ f.type \in Types(crate)
<1>1. Fields(m) \in Seq(FieldTypes(crate))
  BY FieldsTyped
<1>2. f \in FieldTypes(crate)
  BY <1>1, ElementsOfSeq
<1>3. QED
  BY <1>2 DEF FieldTypes

LEMMA BodyAsked ==
    ASSUME TypeInv, NEW i \in 1..Len(crate.bodies)
    PROVE  PlainLeads(crate.bodies[i].type) \subseteq Asked(crate.bodies[i].format)
<1> DEFINE b == crate.bodies[i]
           start == UNION {Leads(crate, d.type) : d \in {c \in Elements(crate.bodies) : c.format = b.format}}
<1>1. b.type \in Types(crate) /\ b \in Elements(crate.bodies)
  BY BodiesTyped
<1>2. PlainLeads(b.type) \subseteq DOMAIN crate.models /\ PlainLeads(b.type) \subseteq Leads(crate, b.type)
  BY <1>1, PlainLeadsAreLeads
<1> HIDE DEF b
<1>3. Leads(crate, b.type) \subseteq start
  BY <1>1
<1>4. QED
  BY <1>2, <1>3 DEF Asked, AskedOf, b

LEMMA AskedClosed ==
    ASSUME TypeInv, NEW format, NEW m \in Asked(format), NEW f \in Elements(Fields(m))
    PROVE  PlainLeads(f.type) \subseteq Asked(format)
<1>1. m \in DOMAIN crate.models
  BY DEF Asked, AskedOf
<1>2. f.type \in Types(crate)
  BY <1>1, FieldIn
<1>3. PlainLeads(f.type) \subseteq Leads(crate, f.type) /\ PlainLeads(f.type) \subseteq DOMAIN crate.models
  BY <1>2, PlainLeadsAreLeads
<1> DEFINE start == UNION {Leads(crate, b.type) : b \in {c \in Elements(crate.bodies) : c.format = format}}
<1>4. ASSUME NEW S \in SUBSET DOMAIN crate.models, start \subseteq S, Closed(crate, S)
      PROVE  PlainLeads(f.type) \subseteq S
  <2>1. m \in S
    BY <1>4 DEF Asked, AskedOf
  <2>2. Leads(crate, f.type) \subseteq S
    BY <1>4, <2>1 DEF Closed, Fields, Model
  <2>3. QED
    BY <1>3, <2>2
<1>5. QED
  BY <1>3, <1>4 DEF Asked, AskedOf

\* A set with the bodies of a format that is closed holds all that it reaches.
LEMMA PlainlyLeast ==
    ASSUME NEW format, NEW S \in SUBSET DOMAIN crate.models, PlainlyClosed(crate, S),
           \A b \in Elements(crate.bodies) : b.format = format /\ Collected(b) # <<>> => PlainLeads(b.type) \subseteq S
    PROVE  Plainly(crate, format) \subseteq S
<1>1. UNION {PlainLeads(b.type) : b \in {c \in Elements(crate.bodies) : c.format = format /\ Collected(c) # <<>>}} \subseteq S
  OBVIOUS
<1>2. QED
  BY <1>1 DEF Plainly

\* When everything is done, all that a format reaches is known in it.
LEMMA ReachedKnown ==
    ASSUME TypeInv, BodiesTaken, FormatsComplete, pc \notin {"formats", "failed"}, NEW format
    PROVE  \A m \in Plainly(crate, format) : Known(m) /\ formats[m] = format
<1> DEFINE S == {m \in DOMAIN formats : formats[m] = format}
<1>1. todo = <<>> /\ bodies = <<>> /\ Taken = Len(crate.bodies) /\ Elements(todo) = {}
  BY BodiesTyped DEF BodiesTaken, Taken, Elements
<1>2. \A x \in Handled : Known(x[1]) /\ formats[x[1]] = x[2]
  BY <1>1 DEF Handled
<1>3. S \in SUBSET DOMAIN crate.models
  BY DEF TypeInv
<1>4. PlainlyClosed(crate, S)
  <2>1. ASSUME NEW m \in S, NEW f \in Elements(Fields(m)), NEW n \in PlainLeads(f.type)
        PROVE  n \in S
    <3>1. <<n, formats[m]>> \in Handled
      BY DEF FormatsComplete
    <3>2. QED
      BY <1>2, <3>1 DEF Known
  <2>2. QED
    BY <2>1 DEF PlainlyClosed, Fields, Model
<1>5. \A b \in Elements(crate.bodies) : b.format = format /\ Collected(b) # <<>> => PlainLeads(b.type) \subseteq S
  <2>1. ASSUME NEW i \in 1..Len(crate.bodies), crate.bodies[i].format = format, Collected(crate.bodies[i]) # <<>>,
               NEW n \in PlainLeads(crate.bodies[i].type)
        PROVE  n \in S
    <3>1. <<n, format>> \in Handled
      BY <1>1, <2>1 DEF FormatsComplete
    <3>2. QED
      BY <1>2, <3>1 DEF Known
  <2>2. QED
    BY <2>1, BodiesTyped
<1>6. Plainly(crate, format) \subseteq S
  BY <1>3, <1>4, <1>5, PlainlyLeast
<1>7. QED
  BY <1>6 DEF Known
----------------------------------------------------------------------------
(* Every step keeps the types. *)

LEMMA EmptyTyped == ASSUME NEW c PROVE Empty \in HelperMaps(c) /\ DOMAIN Empty = {}
<1>1. {} \in SUBSET HelperNames(c) /\ Empty \in [{} -> FieldTypes(c)]
  BY DEF Empty
<1>2. QED
  BY <1>1 DEF HelperMaps, Empty

LEMMA MadeTyped ==
    ASSUME NEW c, NEW helpers \in HelperMaps(c), NEW names \in SUBSET HelperNames(c), NEW f \in FieldTypes(c)
    PROVE  MakeOnce(helpers, names, f) \in HelperMaps(c)
<1>1. PICK S \in SUBSET HelperNames(c) : helpers \in [S -> FieldTypes(c)]
  BY DEF HelperMaps
<1>2. S \cup names \in SUBSET HelperNames(c)
  OBVIOUS
<1>3. MakeOnce(helpers, names, f) \in [S \cup names -> FieldTypes(c)]
  BY <1>1 DEF MakeOnce
<1> HIDE DEF MakeOnce
<1>4. QED
  BY <1>2, <1>3 DEF HelperMaps

\* What a model contributes to the fields of its module.
FieldsAt(m, i) == IF Fields(m)[i].name = Model(m).discriminator THEN <<>> ELSE <<<<m, Fields(m)[i]>>>>

LEMMA FieldsOfTyped ==
    ASSUME TypeInv, NEW m \in DOMAIN crate.models
    PROVE  /\ FieldsOf(m) \in Seq((DOMAIN crate.models) \X FieldTypes(crate))
           /\ Elements(FieldsOf(m)) = {<<m, f>> : f \in Emitted(m)}
<1> DEFINE S == (DOMAIN crate.models) \X FieldTypes(crate)
           n == Len(Fields(m))
           ss == [i \in DOMAIN Fields(m) |-> FieldsAt(m, i)]
<1>1. Fields(m) \in Seq(FieldTypes(crate)) /\ n \in Nat /\ DOMAIN Fields(m) = 1..n
  BY FieldsTyped, LenProperties
<1>2. \A i \in 1..n : Fields(m)[i] \in FieldTypes(crate)
  BY <1>1, ElementOfSeq
<1>3. \A i \in 1..n : <<m, Fields(m)[i]>> \in S
  BY <1>2
<1>4. ss \in [1..n -> Seq(S)]
  <2>1. ASSUME NEW i \in 1..n
        PROVE  FieldsAt(m, i) \in Seq(S)
    <3> DEFINE x == <<m, Fields(m)[i]>>
    <3>1. x \in S
      BY <1>3
    <3> HIDE DEF S, x
    <3>2. <<x>> \in Seq(S) /\ <<>> \in Seq(S)
      BY <3>1
    <3>3. QED
      BY <3>2 DEF FieldsAt, x
  <2> HIDE DEF S
  <2>2. QED
    BY <1>1, <2>1
<1>5. FieldsOf(m) = FlattenSeq(ss)
  BY DEF FieldsOf, FieldsAt
<1>6. \A i \in 1..n : ToSet(ss[i]) = IF Fields(m)[i].name = Model(m).discriminator THEN {} ELSE {<<m, Fields(m)[i]>>}
  BY <1>1 DEF ToSet, FieldsAt
<1> HIDE DEF S, ss
<1>7. FlattenSeq(ss) \in Seq(S) /\ \A x : x \in ToSet(FlattenSeq(ss)) <=> \E i \in 1..n : x \in ToSet(ss[i])
  BY <1>1, <1>4, Flattened
<1>8. Elements(FieldsOf(m)) = ToSet(FlattenSeq(ss))
  BY <1>5, <1>7, ElementsOfSeq
<1>9. Emitted(m) = {f \in {Fields(m)[i] : i \in 1..n} : f.name # Model(m).discriminator}
  BY <1>1 DEF Emitted, EmittedFields, Fields, Elements
<1>10. ToSet(FlattenSeq(ss)) = {<<m, f>> : f \in Emitted(m)}
  <2>1. ASSUME NEW x
        PROVE  (\E i \in 1..n : x \in ToSet(ss[i])) <=> x \in {<<m, f>> : f \in Emitted(m)}
    <3>1. \A i \in 1..n : x \in ToSet(ss[i]) <=> x = <<m, Fields(m)[i]>> /\ Fields(m)[i].name # Model(m).discriminator
      BY <1>6
    <3>2. x \in {<<m, f>> : f \in Emitted(m)} <=> \E i \in 1..n : x = <<m, Fields(m)[i]>> /\ Fields(m)[i].name # Model(m).discriminator
      BY <1>9
    <3>3. QED
      BY <3>1, <3>2
  <2>2. QED
    BY <1>7, <2>1
<1>11. QED
  BY <1>5, <1>7, <1>8, <1>10 DEF S

\* The fields of the models of a module.
FieldsOfEach(models) == FlattenSeq([i \in DOMAIN models |-> FieldsOf(models[i])])

LEMMA FieldsOfEachTyped ==
    ASSUME TypeInv, NEW ms \in Seq(DOMAIN crate.models)
    PROVE  /\ FieldsOfEach(ms) \in Seq((DOMAIN crate.models) \X FieldTypes(crate))
           /\ Elements(FieldsOfEach(ms)) = UNION {{<<m, f>> : f \in Emitted(m)} : m \in Elements(ms)}
<1> DEFINE S == (DOMAIN crate.models) \X FieldTypes(crate)
           n == Len(ms)
           ss == [i \in DOMAIN ms |-> FieldsOf(ms[i])]
<1>1. n \in Nat /\ DOMAIN ms = 1..n /\ \A i \in 1..n : ms[i] \in DOMAIN crate.models
  BY LenProperties, ElementOfSeq
<1>2. \A i \in 1..n : /\ FieldsOf(ms[i]) \in Seq(S)
                      /\ Elements(FieldsOf(ms[i])) = {<<ms[i], f>> : f \in Emitted(ms[i])}
  BY <1>1, FieldsOfTyped
<1>3. ss \in [1..n -> Seq(S)]
  BY <1>1, <1>2
<1>4. \A i \in 1..n : ToSet(ss[i]) = {<<ms[i], f>> : f \in Emitted(ms[i])}
  BY <1>1, <1>2, ElementsOfSeq
<1>5. Elements(ms) = {ms[i] : i \in 1..n}
  BY <1>1 DEF Elements
<1> HIDE DEF S, ss
<1>6. FlattenSeq(ss) \in Seq(S) /\ \A x : x \in ToSet(FlattenSeq(ss)) <=> \E i \in 1..n : x \in ToSet(ss[i])
  BY <1>1, <1>3, Flattened
<1>7. Elements(FlattenSeq(ss)) = ToSet(FlattenSeq(ss))
  BY <1>6, ElementsOfSeq
<1>8. \A x : x \in ToSet(FlattenSeq(ss)) <=> x \in UNION {{<<m, f>> : f \in Emitted(m)} : m \in Elements(ms)}
  BY <1>4, <1>5, <1>6
<1>9. QED
  BY <1>6, <1>7, <1>8 DEF FieldsOfEach, S, ss

LEMMA TypeInit == ASSUME Init PROVE TypeInv
<1>1. crate \in Crates /\ IsCrate(crate)
  BY SerdeAssumption DEF Init
<1>2. bodies \in Seq(Bodies(crate)) /\ modules \in Seq(Seq(DOMAIN crate.models))
  BY <1>1 DEF Init, IsCrate, Bodies, Formats
<1>3. todo \in Seq(Types(crate)) /\ fields \in Seq((DOMAIN crate.models) \X FieldTypes(crate))
      /\ emitted \in Seq([serde : HelperMaps(crate), xml : HelperMaps(crate)])
  BY DEF Init
<1>4. formats = Empty /\ attrs = Empty /\ DOMAIN Empty = {} /\ serdeHelpers \in HelperMaps(crate) /\ xmlListWrappers \in HelperMaps(crate)
  BY EmptyTyped DEF Init
<1>5. Empty \in [DOMAIN Empty -> Formats] /\ Empty \in [DOMAIN Empty -> AttributesOf(crate)]
  BY DEF Empty
<1>6. QED
  BY <1>1, <1>2, <1>3, <1>4, <1>5 DEF TypeInv, Init

\* The types of what the formats leave alone.
LEMMA TypeStutters == ASSUME TypeInv, UNCHANGED <<crate, emission, pc>> PROVE TypeInv'
  BY DEF TypeInv, emission

LEMMA FieldTaken ==
    ASSUME TypeInv, fields # <<>>
    PROVE  /\ Head(fields) = <<Head(fields)[1], Head(fields)[2]>>
           /\ Head(fields)[1] \in DOMAIN crate.models /\ Head(fields)[2] \in FieldTypes(crate)
           /\ Tail(fields) \in Seq((DOMAIN crate.models) \X FieldTypes(crate))
<1> DEFINE S == (DOMAIN crate.models) \X FieldTypes(crate)
<1>1. fields \in Seq(S)
  BY DEF TypeInv
<1> HIDE DEF S
<1>2. Head(fields) \in S /\ Tail(fields) \in Seq(S)
  BY <1>1, HeadTailProperties
<1>3. QED
  BY <1>2 DEF S

LEMMA BodyFormatTyped == ASSUME TypeInv, NEW m PROVE BodyFormat(m) \in Formats
  BY DEF TypeInv, BodyFormat, Known, Formats

LEMMA ParamsTyped ==
    ASSUME NEW c, NEW f \in FieldTypes(c), NEW format \in Formats, NEW visible \in BOOLEAN
    PROVE  /\ SerdeParams(f, format, visible) \in AttributesOf(c) /\ {} \in AttributesOf(c)
           /\ NamedIn(SerdeParams(f, format, visible), "models_serde") \subseteq HelperNames(c)
           /\ NamedIn(SerdeParams(f, format, visible), "xml_helpers") \subseteq HelperNames(c)
<1> DEFINE d == <<f, format, visible>>
<1>1. d \in FieldTypes(c) \X Formats \X BOOLEAN /\ d[1] = f /\ d[2] = format /\ d[3] = visible
  OBVIOUS
<1> HIDE DEF d
<1>2. SerdeParams(f, format, visible) \in AttributesOf(c) /\ {} \in AttributesOf(c)
  BY <1>1 DEF AttributesOf
<1>3. QED
  BY <1>2 DEF HelperNames

LEMMA FormatAdded ==
    ASSUME TypeInv, BodiesTaken, AddBodyFormat
    PROVE  /\ todo # <<>> /\ Head(todo) \in Types(crate) /\ Tail(todo) \in Seq(Types(crate))
           /\ \/ todo' = Tail(todo) /\ formats' = formats
                 /\ \A m \in PlainLeads(Head(todo)) : Known(m) /\ formats[m] = Format
              \/ \E m \in DOMAIN crate.models :
                    /\ PlainLeads(Head(todo)) = {m} /\ ~Known(m)
                    /\ formats' = With(formats, m, Format)
                    /\ \E types \in Seq(Types(crate)) :
                          /\ todo' = types \o Tail(todo)
                          /\ Elements(types) = {f.type : f \in Elements(Fields(m))}
<1> DEFINE leaf == UnwrapType(Head(todo))
           m == leaf.of[1]
<1>1. todo # <<>> /\ Head(todo) \in Types(crate) /\ Tail(todo) \in Seq(Types(crate))
  BY HeadTailProperties DEF AddBodyFormat, TypeInv
<1>2. CASE leaf.kind # "model" \/ (Known(m) /\ formats[m] = Format)
  <2>1. todo' = Tail(todo) /\ UNCHANGED formats
    BY <1>2 DEF AddBodyFormat
  <2>2. \A n \in PlainLeads(Head(todo)) : n = m /\ leaf.kind = "model"
    BY DEF PlainLeads
  <2>3. QED
    BY <1>1, <1>2, <2>1, <2>2
<1>3. CASE ~(leaf.kind # "model" \/ (Known(m) /\ formats[m] = Format))
  <2> DEFINE types == [i \in DOMAIN Fields(m) |-> Fields(m)[i].type]
  <2>1. ~Known(m) /\ formats' = With(formats, m, Format) /\ todo' = types \o Tail(todo)
    BY <1>3 DEF AddBodyFormat
  <2>2. PlainLeads(Head(todo)) = {m}
    BY <1>3 DEF PlainLeads
  <2>3. m \in DOMAIN crate.models
    BY <1>1, <2>2, PlainLeadsAreLeads
  <2> HIDE DEF m
  <2>4. Fields(m) \in Seq(FieldTypes(crate)) /\ DOMAIN Fields(m) = 1..Len(Fields(m)) /\ Len(Fields(m)) \in Nat
    BY <2>3, FieldsTyped, LenProperties
  <2>5. \A i \in 1..Len(Fields(m)) : Fields(m)[i].type \in Types(crate)
    <3>1. ASSUME NEW i \in 1..Len(Fields(m))
          PROVE  Fields(m)[i].type \in Types(crate)
      <4>1. Fields(m)[i] \in FieldTypes(crate)
        BY <2>4, ElementOfSeq
      <4>2. QED
        BY <4>1 DEF FieldTypes
    <3>2. QED
      BY <3>1
  <2>6. types \in Seq(Types(crate))
    BY <2>4, <2>5
  <2>7. Elements(types) = {f.type : f \in Elements(Fields(m))}
    BY DEF Elements
  <2> HIDE DEF types
  <2>8. QED
    BY <1>1, <2>1, <2>2, <2>3, <2>6, <2>7
<1>4. QED
  BY <1>2, <1>3

\* The two ways of taking a type.
OldModel == /\ todo' = Tail(todo) /\ formats' = formats
            /\ \A m \in PlainLeads(Head(todo)) : Known(m) /\ formats[m] = Format

NewModel(m, types) ==
    /\ PlainLeads(Head(todo)) = {m} /\ ~Known(m) /\ formats' = With(formats, m, Format)
    /\ todo' = types \o Tail(todo) /\ Elements(types) = {f.type : f \in Elements(Fields(m))}

LEMMA OldOrNew ==
    ASSUME TypeInv, BodiesTaken, AddBodyFormat
    PROVE  OldModel \/ \E m \in DOMAIN crate.models, types \in Seq(Types(crate)) : NewModel(m, types)
<1>1. CASE OldModel
  BY <1>1
<1>2. CASE ~OldModel
  <2>1. PICK m \in DOMAIN crate.models :
           /\ PlainLeads(Head(todo)) = {m} /\ ~Known(m) /\ formats' = With(formats, m, Format)
           /\ \E types \in Seq(Types(crate)) :
                 todo' = types \o Tail(todo) /\ Elements(types) = {f.type : f \in Elements(Fields(m))}
    BY <1>2, FormatAdded DEF OldModel
  <2>2. PICK types \in Seq(Types(crate)) :
           todo' = types \o Tail(todo) /\ Elements(types) = {f.type : f \in Elements(Fields(m))}
    BY <2>1
  <2>3. NewModel(m, types)
    BY <2>1, <2>2 DEF NewModel
  <2>4. QED
    BY <2>3
<1>3. QED
  BY <1>1, <1>2

LEMMA TypeStep == ASSUME TypeInv, BodiesTaken, [Next]_vars PROVE TypeInv'
<1>1. CASE TakeBody
  <2>1. Head(bodies) \in Bodies(crate) /\ Tail(bodies) \in Seq(Bodies(crate))
    BY <1>1, HeadTailProperties DEF TakeBody, TypeInv
  <2>2. Head(bodies).type \in Types(crate)
    BY <2>1 DEF Bodies
  <2>3. Collected(Head(bodies)) \in Seq(Types(crate))
    BY <2>2 DEF Collected
  <2>4. QED
    BY <1>1, <2>1, <2>3 DEF TakeBody, TypeInv, exchange
<1>2. CASE AddBodyFormat
  <2>1. todo' \in Seq(Types(crate)) /\ formats' \in [DOMAIN formats' -> Formats] /\ DOMAIN formats' \subseteq DOMAIN crate.models
    <3>1. Tail(todo) \in Seq(Types(crate)) /\ Format \in Formats
      BY <1>2, FormatAdded, FormatTyped
    <3>2. CASE todo' = Tail(todo) /\ formats' = formats
      BY <3>1, <3>2 DEF TypeInv
    <3>3. ASSUME NEW m \in DOMAIN crate.models, formats' = With(formats, m, Format),
                 NEW types \in Seq(Types(crate)), todo' = types \o Tail(todo)
          PROVE  todo' \in Seq(Types(crate)) /\ formats' \in [DOMAIN formats' -> Formats] /\ DOMAIN formats' \subseteq DOMAIN crate.models
      <4>1. todo' \in Seq(Types(crate))
        BY <3>1, <3>3, ConcatProperties
      <4>2. formats' \in [DOMAIN formats' -> Formats] /\ DOMAIN formats' \subseteq DOMAIN crate.models
        BY <3>1, <3>3 DEF With, TypeInv
      <4>3. QED
        BY <4>1, <4>2
    <3>4. QED
      BY <1>2, <3>2, <3>3, FormatAdded
  <2>2. QED
    BY <1>2, <2>1 DEF AddBodyFormat, TypeInv, exchange
<1>3. CASE EmitModels
  <2>1. Head(modules) \in Seq(DOMAIN crate.models)
    BY <1>3, HeadTailProperties DEF EmitModels, TypeInv
  <2>2. fields' = FieldsOfEach(Head(modules)) /\ FieldsOfEach(Head(modules)) \in Seq((DOMAIN crate.models) \X FieldTypes(crate))
    BY <1>3, <2>1, FieldsOfEachTyped DEF EmitModels, FieldsOfEach
  <2>3. QED
    BY <1>3, <2>2, EmptyTyped DEF EmitModels, TypeInv, exchange
<1>4. CASE NoModels
  <2>1. Tail(modules) \in Seq(Seq(DOMAIN crate.models))
    BY <1>4, HeadTailProperties DEF NoModels, TypeInv
  <2>2. Append(emitted, [serde |-> Empty, xml |-> Empty]) \in Seq([serde : HelperMaps(crate), xml : HelperMaps(crate)])
    <3>1. [serde |-> Empty, xml |-> Empty] \in [serde : HelperMaps(crate), xml : HelperMaps(crate)]
      BY EmptyTyped
    <3>2. QED
      BY <3>1, AppendProperties DEF TypeInv
  <2>3. QED
    BY <1>4, <2>1, <2>2 DEF NoModels, TypeInv, exchange
<1>5. CASE EmitField
  <2> DEFINE m      == Head(fields)[1]
             f      == Head(fields)[2]
             params == SerdeParams(f, BodyFormat(m), Model(m).visible)
             ours   == IF HasXmlAddlProps(m) THEN {} ELSE params
  <2>1. /\ attrs' = With(attrs, <<m, f.name>>, ours)
        /\ serdeHelpers' = MakeOnce(serdeHelpers, NamedIn(params, "models_serde"), f)
        /\ xmlListWrappers' = MakeOnce(xmlListWrappers, NamedIn(params, "xml_helpers"), f)
        /\ fields' = Tail(fields) /\ fields # <<>>
        /\ UNCHANGED <<crate, bodies, todo, formats, modules, emitted, pc, exchange>>
    BY <1>5 DEF EmitField
  <2>2. m \in DOMAIN crate.models /\ f \in FieldTypes(crate) /\ fields' \in Seq((DOMAIN crate.models) \X FieldTypes(crate))
    BY <2>1, FieldTaken
  <2>3. /\ params \in AttributesOf(crate) /\ {} \in AttributesOf(crate)
        /\ NamedIn(params, "models_serde") \subseteq HelperNames(crate)
        /\ NamedIn(params, "xml_helpers") \subseteq HelperNames(crate)
    BY <2>2, BodyFormatTyped, CrateTyped, ParamsTyped
  <2>4. ours \in AttributesOf(crate) /\ f.name \in STRING
    BY <2>2, <2>3 DEF FieldTypes
  <2> HIDE DEF m, f, params, ours
  <2>5. serdeHelpers' \in HelperMaps(crate) /\ xmlListWrappers' \in HelperMaps(crate)
    BY <2>1, <2>2, <2>3, MadeTyped DEF TypeInv
  <2>6. attrs' \in [DOMAIN attrs' -> AttributesOf(crate)] /\ DOMAIN attrs' \subseteq (DOMAIN crate.models) \X STRING
    BY <2>1, <2>2, <2>4 DEF With, TypeInv
  <2>7. QED
    BY <2>1, <2>2, <2>5, <2>6 DEF TypeInv, exchange
<1>6. CASE EmitHelpers
  <2>1. Tail(modules) \in Seq(Seq(DOMAIN crate.models))
    BY <1>6, HeadTailProperties DEF EmitHelpers, TypeInv
  <2>2. Append(emitted, [serde |-> serdeHelpers, xml |-> xmlListWrappers]) \in Seq([serde : HelperMaps(crate), xml : HelperMaps(crate)])
    BY AppendProperties DEF TypeInv
  <2>3. QED
    BY <1>6, <2>1, <2>2 DEF EmitHelpers, TypeInv, exchange
<1>7. CASE ConflictingFormats \/ UnexpectedKind \/ NoUnionMember
  BY <1>7 DEF ConflictingFormats, UnexpectedKind, NoUnionMember, Fail, TypeInv, emission
<1>8. CASE FormatsDone \/ ModelsDone
  BY <1>8 DEF FormatsDone, ModelsDone, TypeInv, emission
<1>9. CASE Send \/ Answer \/ Read
  BY <1>9 DEF Send, Answer, Read, TypeInv, emission
<1>10. CASE Finished \/ UNCHANGED vars
  BY <1>10 DEF Finished, vars, TypeInv, emission
<1>11. QED
  BY <1>1, <1>2, <1>3, <1>4, <1>5, <1>6, <1>7, <1>8, <1>9, <1>10 DEF Next

----------------------------------------------------------------------------
(* Every step keeps what the formats are about. *)

\* What is still to be emitted is a field of a model.
FieldsEmitted == \A x \in Elements(fields) : x[1] \in DOMAIN crate.models /\ x[2] \in Emitted(x[1])

FailedRightly ==
    pc = "failed" => \/ Asked("xml") \cap Asked("json") # {}
                     \/ \E m \in DOMAIN crate.models : MemberMissing(m) \/ \E f \in Emitted(m) : LiteralInCollection(f)

FormatsInv == TypeInv /\ BodiesTaken /\ FormatsSound /\ FormatsComplete /\ FieldsEmitted /\ FailedRightly

LEMMA SameCrate ==
    ASSUME UNCHANGED crate
    PROVE  /\ \A format : Asked(format)' = Asked(format)
           /\ AskedIn' = AskedIn
           /\ \A m : Model(m)' = Model(m) /\ Fields(m)' = Fields(m) /\ Emitted(m)' = Emitted(m)
           /\ \A m : MemberMissing(m)' <=> MemberMissing(m)
<1>0. \A m : MemberMissing(m)' <=> MemberMissing(m)
  BY DEF MemberMissing, Model, ModuleOf
<1>1. \A m : Model(m)' = Model(m) /\ Fields(m)' = Fields(m) /\ Emitted(m)' = Emitted(m)
  BY DEF Model, Fields, Emitted
<1>2. \A format : Asked(format)' = Asked(format)
  BY DEF Asked
<1>3. AskedIn' = AskedIn
  BY <1>2 DEF AskedIn
<1>4. QED
  BY <1>0, <1>1, <1>2, <1>3

LEMMA FormatsInit == ASSUME Init PROVE FormatsInv
<1>1. TypeInv
  BY TypeInit
<1>2. bodies = crate.bodies /\ todo = <<>> /\ formats = Empty /\ fields = <<>> /\ pc = "formats" /\ DOMAIN Empty = {}
  BY DEF Init, Empty
<1>3. Len(bodies) \in Nat /\ Len(crate.bodies) = Len(bodies) /\ Taken = 0
  BY <1>1, <1>2, BodiesTyped DEF Taken
<1>4. Elements(todo) = {} /\ Elements(fields) = {}
  BY <1>2 DEF Elements
<1>5. BodiesTaken
  BY <1>2, <1>3 DEF BodiesTaken
<1>6. FormatsSound /\ FormatsComplete
  BY <1>2, <1>3, <1>4 DEF FormatsSound, FormatsComplete
<1>7. FieldsEmitted /\ FailedRightly
  BY <1>2, <1>4 DEF FieldsEmitted, FailedRightly
<1>8. QED
  BY <1>1, <1>5, <1>6, <1>7 DEF FormatsInv

\* The bodies are counted as they are taken.
LEMMA BodyTaken ==
    ASSUME TypeInv, BodiesTaken, TakeBody
    PROVE  /\ Taken' = Taken + 1 /\ Taken \in Nat /\ Taken + 1 \in 1..Len(crate.bodies)
           /\ Head(bodies) = crate.bodies[Taken + 1] /\ Format' = crate.bodies[Taken + 1].format
           /\ todo' = Collected(crate.bodies[Taken + 1])
           /\ BodiesTaken'
<1>1. /\ bodies # <<>> /\ todo = <<>> /\ todo' = Collected(Head(bodies)) /\ bodies' = Tail(bodies)
      /\ crate' = crate /\ pc' = pc /\ pc = "formats"
  BY DEF TakeBody
<1>2. /\ Len(Tail(bodies)) = Len(bodies) - 1 /\ Len(bodies) \in Nat \ {0} /\ Head(bodies) = bodies[1]
      /\ \A i \in 1..Len(Tail(bodies)) : Tail(bodies)[i] = bodies[i + 1]
  BY <1>1, HeadAndTail DEF TypeInv
<1>3. Len(crate.bodies) \in Nat /\ Len(bodies) <= Len(crate.bodies) /\ \A i \in 1..Len(bodies) : bodies[i] = crate.bodies[Taken + i]
  BY BodiesTyped DEF BodiesTaken
<1>4. Taken = Len(crate.bodies) - Len(bodies) /\ Taken' = Len(crate.bodies) - Len(Tail(bodies))
  BY <1>1 DEF Taken
<1>5. Taken' = Taken + 1 /\ Taken \in Nat /\ Taken + 1 \in 1..Len(crate.bodies)
  BY <1>2, <1>3, <1>4
<1>6. Head(bodies) = crate.bodies[Taken + 1]
  BY <1>2, <1>3
<1>7. Format' = crate.bodies[Taken + 1].format
  BY <1>1, <1>4, <1>5 DEF Format
<1>8. \A i \in 1..Len(bodies') : bodies'[i] = crate.bodies[Taken' + i]
  <2>1. ASSUME NEW i \in 1..(Len(bodies) - 1)
        PROVE  Tail(bodies)[i] = crate.bodies[Taken + 1 + i]
    <3>1. Tail(bodies)[i] = bodies[i + 1] /\ i + 1 \in 1..Len(bodies)
      BY <1>2
    <3>2. Taken + (i + 1) = Taken + 1 + i
      BY <1>5
    <3>3. QED
      BY <1>3, <3>1, <3>2
  <2>2. QED
    BY <1>1, <1>2, <1>5, <2>1
<1>9. Len(bodies') <= Len(crate.bodies)
  BY <1>1, <1>2, <1>3
<1>10. BodiesTaken'
  BY <1>1, <1>5, <1>8, <1>9 DEF BodiesTaken
<1>11. QED
  BY <1>1, <1>5, <1>6, <1>7, <1>10

LEMMA BodiesTakenKept ==
    ASSUME TypeInv, BodiesTaken, Next, ~TakeBody
    PROVE  BodiesTaken' /\ UNCHANGED <<crate, bodies>> /\ Taken' = Taken /\ Format' = Format
<1>1. UNCHANGED <<crate, bodies>>
  BY DEF Next, AddBodyFormat, ConflictingFormats, FormatsDone, EmitModels, NoModels, EmitField, UnexpectedKind, NoUnionMember,
         EmitHelpers, ModelsDone, Send, Answer, Read, Finished, Fail, emission, exchange, vars
<1>2. Taken' = Taken /\ Format' = Format
  BY <1>1 DEF Taken, Format
<1>3. todo' # <<>> => todo # <<>>
  BY DEF Next, AddBodyFormat, ConflictingFormats, FormatsDone, EmitModels, NoModels, EmitField, UnexpectedKind, NoUnionMember,
         EmitHelpers, ModelsDone, Send, Answer, Read, Finished, Fail, emission, exchange, vars
<1>4. pc' \notin {"formats", "failed"} => todo' = <<>> /\ bodies' = <<>>
  BY <1>1 DEF BodiesTaken, Next, AddBodyFormat, ConflictingFormats, FormatsDone, EmitModels, NoModels, EmitField,
         UnexpectedKind, NoUnionMember, EmitHelpers, ModelsDone, Send, Answer, Read, Finished, Fail, emission, exchange, vars, TakeBody
<1>5. QED
  BY <1>1, <1>2, <1>3, <1>4 DEF BodiesTaken

\* The steps that leave the formats alone.
FormatsAlone == UNCHANGED <<crate, bodies, todo, formats>>

LEMMA AloneOrNot == ASSUME Next PROVE TakeBody \/ AddBodyFormat \/ FormatsAlone
  BY DEF FormatsAlone, Next, ConflictingFormats, FormatsDone, EmitModels, NoModels, EmitField, UnexpectedKind, NoUnionMember,
         EmitHelpers, ModelsDone, Send, Answer, Read, Finished, Fail, emission, exchange, vars

LEMMA KnownAlone ==
    ASSUME FormatsAlone
    PROVE  /\ Taken' = Taken /\ Format' = Format
           /\ (\A m : Known(m)' <=> Known(m))
           /\ Handled' = Handled
<1>1. Taken' = Taken /\ Format' = Format
  BY DEF FormatsAlone, Taken, Format
<1>2. \A m : Known(m)' <=> Known(m)
  BY DEF FormatsAlone, Known
<1>3. Handled' = Handled
  BY <1>1, <1>2 DEF FormatsAlone, Handled
<1>4. QED
  BY <1>1, <1>2, <1>3

LEMMA SoundStep == ASSUME TypeInv, BodiesTaken, FormatsSound, Next PROVE FormatsSound'
<1>1. CASE TakeBody
  <2> DEFINE b == crate.bodies[Taken + 1]
  <2>1. UNCHANGED <<crate, formats>> /\ todo' = Collected(b) /\ Format' = b.format /\ PlainLeads(b.type) \subseteq Asked(b.format)
    BY <1>1, BodyTaken, BodyAsked DEF TakeBody
  <2>2. b.format \in Formats
    BY <1>1, BodyTaken, BodiesTyped
  <2>3. Elements(todo') \subseteq {b.type}
    BY <2>1 DEF Elements, Collected
  <2>4. AskedIn' = AskedIn /\ AskedIn[b.format] = Asked(b.format)
    BY <2>1, <2>2, SameCrate DEF AskedIn
  <2> HIDE DEF b
  <2>5. QED
    BY <2>1, <2>3, <2>4 DEF FormatsSound
<1>2. CASE AddBodyFormat
  <2>1. UNCHANGED crate /\ Format' = Format /\ Format \in Formats /\ AskedIn[Format] = Asked(Format)
    BY <1>2, FormatAdded, FormatTyped, BodiesTakenKept DEF AddBodyFormat, TakeBody, AskedIn
  <2>2. AskedIn' = AskedIn
    BY <2>1, SameCrate
  <2>3. /\ Elements(todo) = {Head(todo)} \cup Elements(Tail(todo)) /\ Tail(todo) \in Seq(Types(crate))
        /\ PlainLeads(Head(todo)) \subseteq Asked(Format)
    BY <1>2, <2>1, FormatAdded, HeadAndTail DEF TypeInv, FormatsSound
  <2>4. CASE OldModel
    <3>1. todo' = Tail(todo) /\ formats' = formats
      BY <2>4 DEF OldModel
    <3>2. QED
      BY <2>1, <2>2, <2>3, <3>1 DEF FormatsSound
  <2>5. ASSUME NEW m \in DOMAIN crate.models, NEW types \in Seq(Types(crate)), NewModel(m, types)
        PROVE  FormatsSound'
    <3>0. /\ PlainLeads(Head(todo)) = {m} /\ formats' = With(formats, m, Format)
          /\ todo' = types \o Tail(todo) /\ Elements(types) = {f.type : f \in Elements(Fields(m))}
      BY <2>5 DEF NewModel
    <3>1. m \in Asked(Format)
      BY <2>3, <3>0
    <3>2. \A t \in Elements(types) : PlainLeads(t) \subseteq Asked(Format)
      BY <3>0, <3>1, AskedClosed
    <3>3. Elements(todo') = Elements(types) \cup Elements(Tail(todo))
      <4>1. \A u, v \in Seq(Types(crate)) : Elements(u \o v) = Elements(u) \cup Elements(v)
        BY ElementsOfConcat
      <4>2. Elements(types \o Tail(todo)) = Elements(types) \cup Elements(Tail(todo))
        BY <2>3, <4>1
      <4>3. QED
        BY <3>0, <4>2
    <3>4. \A n \in DOMAIN formats' : n \in AskedIn[formats'[n]]
      BY <2>1, <3>0, <3>1 DEF With, FormatsSound
    <3>5. \A t \in Elements(todo') : PlainLeads(t) \subseteq AskedIn[Format]
      <4>1. \A t \in Elements(Tail(todo)) : PlainLeads(t) \subseteq AskedIn[Format]
        BY <2>3 DEF FormatsSound
      <4>2. \A t \in Elements(types) : PlainLeads(t) \subseteq AskedIn[Format]
        BY <2>1, <3>2
      <4>3. QED
        BY <3>3, <4>1, <4>2
    <3>6. QED
      BY <2>1, <2>2, <3>4, <3>5 DEF FormatsSound
  <2>6. QED
    BY <1>2, <2>4, <2>5, OldOrNew
<1>3. CASE FormatsAlone
  <2>1. UNCHANGED <<crate, todo, formats>> /\ Format' = Format /\ AskedIn' = AskedIn
    BY <1>3, KnownAlone, SameCrate DEF FormatsAlone
  <2>2. QED
    BY <2>1 DEF FormatsSound
<1>4. QED
  BY <1>1, <1>2, <1>3, AloneOrNot

\* What was known or to be done still is, and so are the fields of a new model.
LEMMA HandledOn ==
    ASSUME TypeInv, BodiesTaken, AddBodyFormat
    PROVE  /\ Handled \subseteq Handled'
           /\ \A m \in DOMAIN formats' \ DOMAIN formats :
                 \A f \in Elements(Fields(m)) : PlainLeads(f.type) \X {formats'[m]} \subseteq Handled'
           /\ \A m \in DOMAIN formats : m \in DOMAIN formats' /\ formats'[m] = formats[m]
<1>1. UNCHANGED crate /\ Format' = Format /\ Format \in Formats
  BY BodiesTakenKept, FormatTyped DEF AddBodyFormat, TakeBody, Next
<1>2. Elements(todo) = {Head(todo)} \cup Elements(Tail(todo)) /\ Tail(todo) \in Seq(Types(crate))
  BY FormatAdded, HeadAndTail DEF TypeInv
<1>3. CASE /\ todo' = Tail(todo) /\ formats' = formats
           /\ \A m \in PlainLeads(Head(todo)) : Known(m) /\ formats[m] = Format
  BY <1>1, <1>2, <1>3 DEF Handled, Known
<1>4. ASSUME NEW m \in DOMAIN crate.models, PlainLeads(Head(todo)) = {m}, ~Known(m), formats' = With(formats, m, Format),
             NEW types \in Seq(Types(crate)), todo' = types \o Tail(todo), Elements(types) = {f.type : f \in Elements(Fields(m))}
      PROVE  /\ Handled \subseteq Handled'
             /\ \A n \in DOMAIN formats' \ DOMAIN formats :
                   \A f \in Elements(Fields(n)) : PlainLeads(f.type) \X {formats'[n]} \subseteq Handled'
             /\ \A n \in DOMAIN formats : n \in DOMAIN formats' /\ formats'[n] = formats[n]
  <2>1. Elements(todo') = Elements(types) \cup Elements(Tail(todo))
    <3>1. \A u, v \in Seq(Types(crate)) : Elements(u \o v) = Elements(u) \cup Elements(v)
      BY ElementsOfConcat
    <3>2. Elements(types \o Tail(todo)) = Elements(types) \cup Elements(Tail(todo))
      BY <1>2, <3>1
    <3>3. QED
      BY <1>4, <3>2
  <2>2. \A n : Known(n) => Known(n)' /\ formats'[n] = formats[n]
    BY <1>4 DEF Known, With
  <2>3. Known(m)' /\ formats'[m] = Format /\ DOMAIN formats' \ DOMAIN formats = {m}
    BY <1>4 DEF Known, With
  <2>4. Handled \subseteq Handled'
    BY <1>1, <1>2, <1>4, <2>1, <2>2, <2>3 DEF Handled
  <2>5. ASSUME NEW f \in Elements(Fields(m)), NEW n \in PlainLeads(f.type)
        PROVE  <<n, Format>> \in Handled'
    <3>1. n \in DOMAIN crate.models
      BY FieldIn, PlainLeadsAreLeads
    <3>2. f.type \in Elements(todo')
      BY <1>4, <2>1
    <3>3. QED
      BY <1>1, <3>1, <3>2 DEF Handled
  <2>6. QED
    BY <2>2, <2>3, <2>4, <2>5 DEF Known
<1>5. ASSUME NEW m \in DOMAIN crate.models, NEW types \in Seq(Types(crate)), NewModel(m, types)
      PROVE  /\ Handled \subseteq Handled'
             /\ \A n \in DOMAIN formats' \ DOMAIN formats :
                   \A f \in Elements(Fields(n)) : PlainLeads(f.type) \X {formats'[n]} \subseteq Handled'
             /\ \A n \in DOMAIN formats : n \in DOMAIN formats' /\ formats'[n] = formats[n]
  <2>1. /\ PlainLeads(Head(todo)) = {m} /\ ~Known(m) /\ formats' = With(formats, m, Format)
        /\ todo' = types \o Tail(todo) /\ Elements(types) = {f.type : f \in Elements(Fields(m))}
    BY <1>5 DEF NewModel
  <2>2. QED
    BY <1>4, <2>1
<1>6. CASE OldModel
  BY <1>3, <1>6 DEF OldModel
<1>7. QED
  BY <1>5, <1>6, OldOrNew

LEMMA CompleteStep == ASSUME TypeInv, BodiesTaken, FormatsComplete, Next PROVE FormatsComplete'
<1>1. CASE TakeBody
  <2> DEFINE b == crate.bodies[Taken + 1]
  <2>1. /\ UNCHANGED <<crate, formats>> /\ todo = <<>> /\ todo' = Collected(b) /\ Format' = b.format
        /\ Taken' = Taken + 1 /\ Taken \in Nat /\ Taken + 1 \in 1..Len(crate.bodies)
    BY <1>1, BodyTaken DEF TakeBody
  <2>2. Elements(todo) = {} /\ (Collected(b) # <<>> => Elements(todo') = {b.type})
    BY <2>1 DEF Elements, Collected
  <2>3. b.type \in Types(crate) /\ b.format \in Formats
    BY <2>1, BodiesTyped
  <2>4. PlainLeads(b.type) \subseteq DOMAIN crate.models
    BY <2>3, PlainLeadsAreLeads
  <2> HIDE DEF b
  <2>5. Handled \subseteq Handled'
    BY <2>1, <2>2 DEF Handled, Known
  <2>6. Collected(b) # <<>> => PlainLeads(b.type) \X {b.format} \subseteq Handled'
    BY <2>1, <2>2, <2>3, <2>4 DEF Handled
  <2>7. \A m : Fields(m)' = Fields(m)
    BY <2>1, SameCrate
  <2>8. ASSUME NEW i \in 1..Taken', Collected(crate.bodies[i]) # <<>>
        PROVE  PlainLeads(crate.bodies[i].type) \X {crate.bodies[i].format} \subseteq Handled'
    <3>1. CASE i = Taken + 1
      BY <2>6, <2>8, <3>1 DEF b
    <3>2. CASE i # Taken + 1
      <4>1. i \in 1..Taken
        BY <2>1, <3>2
      <4>2. PlainLeads(crate.bodies[i].type) \X {crate.bodies[i].format} \subseteq Handled
        BY <2>8, <4>1 DEF FormatsComplete
      <4>3. QED
        BY <2>5, <4>2
    <3>3. QED
      BY <3>1, <3>2
  <2>9. ASSUME NEW m \in DOMAIN formats, NEW f \in Elements(Fields(m))
        PROVE  PlainLeads(f.type) \X {formats[m]} \subseteq Handled'
    <3>1. PlainLeads(f.type) \X {formats[m]} \subseteq Handled
      BY DEF FormatsComplete
    <3>2. QED
      BY <2>5, <3>1
  <2>10. QED
    BY <2>1, <2>7, <2>8, <2>9 DEF FormatsComplete
<1>2. CASE AddBodyFormat
  <2>1. UNCHANGED crate /\ Taken' = Taken /\ \A m : Fields(m)' = Fields(m)
    BY <1>2, BodiesTakenKept, SameCrate DEF AddBodyFormat, TakeBody
  <2>2. /\ Handled \subseteq Handled'
        /\ \A m \in DOMAIN formats' \ DOMAIN formats :
              \A f \in Elements(Fields(m)) : PlainLeads(f.type) \X {formats'[m]} \subseteq Handled'
        /\ \A m \in DOMAIN formats : m \in DOMAIN formats' /\ formats'[m] = formats[m]
    BY <1>2, HandledOn
  <2>3. ASSUME NEW i \in 1..Taken, Collected(crate.bodies[i]) # <<>>
        PROVE  PlainLeads(crate.bodies[i].type) \X {crate.bodies[i].format} \subseteq Handled'
    <3>1. PlainLeads(crate.bodies[i].type) \X {crate.bodies[i].format} \subseteq Handled
      BY <2>3 DEF FormatsComplete
    <3>2. QED
      BY <2>2, <3>1
  <2>4. ASSUME NEW m \in DOMAIN formats', NEW f \in Elements(Fields(m))
        PROVE  PlainLeads(f.type) \X {formats'[m]} \subseteq Handled'
    <3>1. CASE m \in DOMAIN formats
      <4>1. PlainLeads(f.type) \X {formats[m]} \subseteq Handled
        BY <3>1 DEF FormatsComplete
      <4>2. QED
        BY <2>2, <3>1, <4>1
    <3>2. CASE m \notin DOMAIN formats
      BY <2>2, <3>2
    <3>3. QED
      BY <3>1, <3>2
  <2>5. QED
    BY <2>1, <2>3, <2>4 DEF FormatsComplete
<1>3. CASE FormatsAlone
  <2>1. UNCHANGED <<crate, formats>> /\ Taken' = Taken /\ Handled' = Handled /\ \A m : Fields(m)' = Fields(m)
    BY <1>3, KnownAlone, SameCrate DEF FormatsAlone
  <2>2. QED
    BY <2>1 DEF FormatsComplete
<1>4. QED
  BY <1>1, <1>2, <1>3, AloneOrNot

LEMMA CrateStays == ASSUME [Next]_vars PROVE UNCHANGED crate
  BY DEF Next, TakeBody, AddBodyFormat, ConflictingFormats, FormatsDone, EmitModels, NoModels, EmitField, UnexpectedKind, NoUnionMember,
         EmitHelpers, ModelsDone, Send, Answer, Read, Finished, Fail, emission, exchange, vars

LEMMA EmittedStep == ASSUME TypeInv, FieldsEmitted, Next PROVE FieldsEmitted'
<1>1. UNCHANGED crate /\ \A m : Emitted(m)' = Emitted(m)
  BY CrateStays, SameCrate
<1>2. CASE EmitModels
  <2>1. Head(modules) \in Seq(DOMAIN crate.models)
    BY <1>2, HeadTailProperties DEF EmitModels, TypeInv
  <2>2. fields' = FieldsOfEach(Head(modules)) /\ Elements(Head(modules)) \subseteq DOMAIN crate.models
        /\ Elements(FieldsOfEach(Head(modules))) = UNION {{<<m, f>> : f \in Emitted(m)} : m \in Elements(Head(modules))}
    BY <1>2, <2>1, FieldsOfEachTyped, ElementsOfSeq DEF EmitModels, FieldsOfEach
  <2>3. \A x \in Elements(fields') : x[1] \in DOMAIN crate.models /\ x[2] \in Emitted(x[1])
    BY <2>2
  <2>4. QED
    BY <1>1, <2>3 DEF FieldsEmitted
<1>3. CASE EmitField
  <2>1. fields # <<>> /\ fields' = Tail(fields)
    BY <1>3 DEF EmitField
  <2>2. Elements(fields') \subseteq Elements(fields)
    BY <2>1, HeadAndTail DEF TypeInv
  <2>3. QED
    BY <1>1, <2>2 DEF FieldsEmitted
<1>4. CASE ~(EmitModels \/ EmitField)
  <2>1. UNCHANGED fields
    BY <1>4 DEF Next, TakeBody, AddBodyFormat, ConflictingFormats, FormatsDone, NoModels, UnexpectedKind, NoUnionMember,
           EmitHelpers, ModelsDone, Send, Answer, Read, Finished, Fail, emission, exchange, vars
  <2>2. QED
    BY <1>1, <2>1 DEF FieldsEmitted
<1>5. QED
  BY <1>2, <1>3, <1>4

LEMMA FailedStep == ASSUME FormatsInv, Next PROVE FailedRightly'
<1>0. TypeInv /\ BodiesTaken /\ FormatsSound /\ FieldsEmitted
  BY DEF FormatsInv
<1>1. CASE ConflictingFormats
  <2> DEFINE m == UnwrapType(Head(todo)).of[1]
  <2>1. todo # <<>> /\ Known(m) /\ formats[m] # Format /\ UNCHANGED crate /\ PlainLeads(Head(todo)) = {m}
    BY <1>1 DEF ConflictingFormats, Fail, PlainLeads
  <2>2. Format \in Formats /\ formats[m] \in Formats
    BY <1>0, <2>1, FormatTyped DEF TypeInv, Known
  <2>3. Head(todo) \in Elements(todo)
    BY <1>0, <2>1, HeadAndTail DEF TypeInv
  <2> HIDE DEF m
  <2>4. m \in AskedIn[formats[m]] /\ m \in AskedIn[Format]
    BY <1>0, <2>1, <2>3 DEF FormatsSound, Known
  <2>5. m \in Asked("xml") /\ m \in Asked("json")
    BY <2>1, <2>2, <2>4 DEF AskedIn, Formats
  <2>6. Asked("xml")' = Asked("xml") /\ Asked("json")' = Asked("json")
    BY <2>1, SameCrate
  <2>7. QED
    BY <2>5, <2>6 DEF FailedRightly
<1>2. CASE UnexpectedKind
  <2> DEFINE m == Head(fields)[1]
             f == Head(fields)[2]
  <2>1. fields # <<>> /\ LiteralInCollection(f) /\ UNCHANGED crate
    BY <1>2 DEF UnexpectedKind, Fail
  <2>2. Head(fields) \in Elements(fields)
    BY <1>0, <2>1, HeadAndTail DEF TypeInv
  <2>3. m \in DOMAIN crate.models /\ f \in Emitted(m)
    BY <1>0, <2>2 DEF FieldsEmitted
  <2>4. \E n \in DOMAIN crate.models : \E g \in Emitted(n) : LiteralInCollection(g)
    BY <2>1, <2>3
  <2>5. \A n : Emitted(n)' = Emitted(n)
    BY <2>1, SameCrate
  <2> HIDE DEF m, f
  <2>6. QED
    BY <2>1, <2>4, <2>5 DEF FailedRightly
<1>3. CASE NoUnionMember
  <2>1. UNCHANGED crate /\ modules # <<>> /\ \E m \in Elements(Head(modules)) : MemberMissing(m)
    BY <1>3 DEF NoUnionMember, TagMissing, Fail
  <2>2. Head(modules) \in Seq(DOMAIN crate.models)
    BY <1>0, <2>1, HeadTailProperties DEF TypeInv
  <2>3. Elements(Head(modules)) \subseteq DOMAIN crate.models
    BY <2>2, ElementsOfSeq
  <2>4. \E m \in DOMAIN crate.models : MemberMissing(m)
    BY <2>1, <2>3
  <2>5. \A m : MemberMissing(m)' <=> MemberMissing(m)
    BY <2>1, SameCrate
  <2>6. QED
    BY <2>1, <2>4, <2>5 DEF FailedRightly
<1>4. CASE ~(ConflictingFormats \/ UnexpectedKind \/ NoUnionMember)
  <2>1. UNCHANGED crate /\ (pc' = "failed" => pc = "failed")
    BY <1>4 DEF Next, TakeBody, AddBodyFormat, FormatsDone, EmitModels, NoModels, EmitField,
           EmitHelpers, ModelsDone, Send, Answer, Read, Finished, Fail, emission, exchange, vars
  <2>2. /\ \A m : Emitted(m)' = Emitted(m) /\ (MemberMissing(m)' <=> MemberMissing(m))
        /\ Asked("xml")' = Asked("xml") /\ Asked("json")' = Asked("json")
    BY <2>1, SameCrate
  <2>3. QED
    BY <2>1, <2>2 DEF FailedRightly, FormatsInv
<1>5. QED
  BY <1>1, <1>2, <1>3, <1>4

LEMMA FormatsStep == ASSUME FormatsInv, [Next]_vars PROVE FormatsInv'
<1>0. TypeInv /\ BodiesTaken /\ FormatsSound /\ FormatsComplete /\ FieldsEmitted /\ FailedRightly
  BY DEF FormatsInv
<1>1. TypeInv'
  BY <1>0, TypeStep
<1>2. CASE Next
  <2>1. BodiesTaken'
    BY <1>0, <1>2, BodyTaken, BodiesTakenKept
  <2>2. FormatsSound' /\ FormatsComplete' /\ FieldsEmitted' /\ FailedRightly'
    BY <1>0, <1>2, SoundStep, CompleteStep, EmittedStep, FailedStep
  <2>3. QED
    BY <1>1, <2>1, <2>2 DEF FormatsInv
<1>3. CASE UNCHANGED vars
  <2>1. FormatsAlone /\ UNCHANGED <<fields, pc, crate>>
    BY <1>3 DEF vars, emission, FormatsAlone
  <2>2. /\ Taken' = Taken /\ Format' = Format /\ Handled' = Handled /\ AskedIn' = AskedIn
        /\ Asked("xml")' = Asked("xml") /\ Asked("json")' = Asked("json")
        /\ \A m : Fields(m)' = Fields(m) /\ Emitted(m)' = Emitted(m) /\ (MemberMissing(m)' <=> MemberMissing(m))
    BY <2>1, KnownAlone, SameCrate
  <2>3. BodiesTaken' /\ FormatsSound' /\ FormatsComplete'
    BY <1>0, <2>1, <2>2 DEF BodiesTaken, FormatsSound, FormatsComplete, FormatsAlone
  <2>4. FieldsEmitted' /\ FailedRightly'
    BY <1>0, <2>1, <2>2 DEF FieldsEmitted, FailedRightly
  <2>5. QED
    BY <1>1, <2>3, <2>4 DEF FormatsInv
<1>4. QED
  BY <1>2, <1>3

\* Whatever crate is given, what Context and emitModels collect keeps its
\* types, the bodies are taken in their order, every model that has a format
\* is in a body of it, and what was asked for is known or still to be done
\* (Context.recursivePopulate and emitModels).
THEOREM FormatsInvariant == Spec => []FormatsInv
<1>1. Init => FormatsInv
  BY FormatsInit
<1>2. FormatsInv /\ [Next]_vars => FormatsInv'
  BY FormatsStep
<1>3. QED
  BY <1>1, <1>2, PTL DEF Spec

LEMMA FormatsAsAsked ==
    ASSUME FormatsInv, ReachedPlainly(crate), pc \notin {"formats", "failed"}, NEW m \in DOMAIN crate.models
    PROVE  BodyFormat(m) = AskedFormat(m) /\ ~(m \in Asked("xml") /\ m \in Asked("json"))
<1>0. TypeInv /\ BodiesTaken /\ FormatsSound /\ FormatsComplete
  BY DEF FormatsInv
<1>1. \A n \in Plainly(crate, "xml") : Known(n) /\ formats[n] = "xml"
  BY <1>0, ReachedKnown
<1>2. \A n \in Plainly(crate, "json") : Known(n) /\ formats[n] = "json"
  BY <1>0, ReachedKnown
<1>3. Known(m) => formats[m] \in Formats /\ m \in Asked(formats[m])
  BY <1>0 DEF Known, TypeInv, FormatsSound, AskedIn
<1>4. CASE m \in Asked("xml")
  <2>1. Known(m) /\ formats[m] = "xml"
    BY <1>1, <1>4 DEF ReachedPlainly, Asked
  <2>2. m \notin Asked("json")
    BY <1>2, <1>4, <2>1 DEF ReachedPlainly, Asked
  <2>3. QED
    BY <1>4, <2>1, <2>2 DEF BodyFormat, AskedFormat, AskedFormatOf, Asked
<1>5. CASE m \notin Asked("xml")
  <2>1. Known(m) => formats[m] = "json"
    BY <1>3, <1>5 DEF Formats
  <2>2. QED
    BY <1>5, <2>1 DEF BodyFormat, AskedFormat, AskedFormatOf, Asked
<1>6. QED
  BY <1>4, <1>5

LEMMA ReachIfInv == ASSUME FormatsInv, ReachedPlainly(crate) PROVE FormatsReach
  BY FormatsAsAsked DEF FormatsInv, FailedRightly, FormatsReach

\* When the models are emitted each has the format of the bodies that hold it,
\* whichever the crate, if no model of a body in XML is found only in a Box,
\* through a union or in the status of a poller; and only a model in bodies of
\* both formats, a literal in a collection or a subtype apart from its union
\* makes the emitter give up (Context.recursivePopulate, emitModelDefinitions).
THEOREM ModelsHaveTheirFormats == Spec /\ ReachedPlainly(crate) => []FormatsReach
<1>1. ReachedPlainly(crate) /\ [Next]_vars => ReachedPlainly(crate)'
  BY CrateStays
<1>2. FormatsInv /\ ReachedPlainly(crate) => FormatsReach
  BY ReachIfInv
<1>3. QED
  BY <1>1, <1>2, FormatsInvariant, PTL DEF Spec

----------------------------------------------------------------------------
(* What has been emitted, module by module. *)

\* The fields of a module, with their models.
Pairs(c, i) == UNION {{<<m, f>> : f \in EmittedFields(c.models[m])} : m \in Elements(c.modules[i])}

AllPairs(c) == UNION {{<<m, f>> : f \in EmittedFields(c.models[m])} : m \in DOMAIN c.models}

\* The options that a field is given, and the attribute that is emitted.
ParamsAt == [x \in AllPairs(crate) |-> SerdeParams(x[2], BodyFormat(x[1]), Model(x[1]).visible)]

AttrAt == [x \in AllPairs(crate) |-> IF HasXmlAddlProps(x[1]) THEN {} ELSE ParamsAt[x]]

\* Some fields have their attributes and the helpers that these name.
Settled(S, params, keys, serde, xml) ==
    \A x \in S : /\ <<x[1], x[2].name>> \in keys /\ ~LiteralInCollection(x[2])
                 /\ NamedIn(params[x], "models_serde") \subseteq DOMAIN serde
                 /\ NamedIn(params[x], "xml_helpers") \subseteq DOMAIN xml

\* Every helper was made for one of these fields, which names it.
MadeBy(S, params, helpers, module) ==
    \A n \in DOMAIN helpers : \E x \in S : /\ n \in NamedIn(params[x], module) /\ helpers[n] = x[2]
                                           /\ ~LiteralInCollection(x[2])

AllMadeBy(S, params, serde, xml) == MadeBy(S, params, serde, "models_serde") /\ MadeBy(S, params, xml, "xml_helpers")

\* The module that is being emitted.
Current == Len(emitted) + 1

ModulesEmitted ==
    /\ Len(emitted) + Len(modules) = Len(crate.modules)
    /\ \A k \in 1..Len(modules) : modules[k] = crate.modules[Len(emitted) + k]

AttrsRight == \A k \in DOMAIN attrs : \E x \in AllPairs(crate) : k = <<x[1], x[2].name>> /\ attrs[k] = AttrAt[x]

CompleteRight ==
    \A i \in 1..Len(emitted) :
        /\ Settled(Pairs(crate, i), ParamsAt, DOMAIN attrs, emitted[i].serde, emitted[i].xml)
        /\ AllMadeBy(Pairs(crate, i), ParamsAt, emitted[i].serde, emitted[i].xml)

CurrentRight ==
    /\ Elements(fields) \subseteq Pairs(crate, Current)
    /\ Settled(Pairs(crate, Current) \ Elements(fields), ParamsAt, DOMAIN attrs, serdeHelpers, xmlListWrappers)
    /\ AllMadeBy(Pairs(crate, Current), ParamsAt, serdeHelpers, xmlListWrappers)

EmissionInv ==
    /\ pc = "formats" => attrs = Empty /\ emitted = <<>> /\ modules = crate.modules
    /\ pc \notin {"formats", "failed"} => ModulesEmitted /\ AttrsRight /\ CompleteRight
    /\ pc = "fields" => CurrentRight
    /\ pc \notin {"formats", "failed", "modules", "fields"} => modules = <<>>

LEMMA SameParams ==
    ASSUME UNCHANGED <<crate, formats>>
    PROVE  ParamsAt' = ParamsAt /\ AttrAt' = AttrAt
<1>1. \A m : BodyFormat(m)' = BodyFormat(m) /\ Model(m)' = Model(m)
  BY DEF BodyFormat, Known, Model
<1>2. \A m : HasXmlAddlProps(m)' = HasXmlAddlProps(m)
  BY <1>1 DEF HasXmlAddlProps
<1>3. ParamsAt' = ParamsAt
  BY <1>1 DEF ParamsAt
<1>4. AttrAt' = AttrAt
  BY <1>2, <1>3 DEF AttrAt
<1>5. QED
  BY <1>3, <1>4

LEMMA ModulesTyped ==
    ASSUME TypeInv
    PROVE  /\ crate.modules \in Seq(Seq(DOMAIN crate.models)) /\ Len(crate.modules) \in Nat /\ DOMAIN crate.modules = 1..Len(crate.modules)
           /\ \A i \in 1..Len(crate.modules) : Elements(crate.modules[i]) \subseteq DOMAIN crate.models
           /\ \A i \in 1..Len(crate.modules) : Pairs(crate, i) \subseteq AllPairs(crate)
           /\ Len(emitted) \in Nat /\ Len(modules) \in Nat /\ DOMAIN emitted = 1..Len(emitted)
<1>1. crate.modules \in Seq(Seq(DOMAIN crate.models))
  BY CrateTyped DEF IsCrate
<1>2. Len(crate.modules) \in Nat /\ DOMAIN crate.modules = 1..Len(crate.modules)
      /\ \A i \in 1..Len(crate.modules) : crate.modules[i] \in Seq(DOMAIN crate.models)
  BY <1>1, LenProperties, ElementOfSeq
<1>3. \A i \in 1..Len(crate.modules) : Elements(crate.modules[i]) \subseteq DOMAIN crate.models
  BY <1>2, ElementsOfSeq
<1>4. \A i \in 1..Len(crate.modules) : Pairs(crate, i) \subseteq AllPairs(crate)
  BY <1>3 DEF Pairs, AllPairs
<1>5. Len(emitted) \in Nat /\ Len(modules) \in Nat /\ DOMAIN emitted = 1..Len(emitted)
  BY LenProperties DEF TypeInv
<1>6. QED
  BY <1>1, <1>2, <1>3, <1>4, <1>5

\* One module is dealt with, and the next is the first of those left.
LEMMA NextModule ==
    ASSUME TypeInv, ModulesEmitted, modules # <<>>
    PROVE  /\ Current \in 1..Len(crate.modules) /\ Head(modules) = crate.modules[Current]
           /\ Head(modules) \in Seq(DOMAIN crate.models)
           /\ Len(Tail(modules)) = Len(modules) - 1
           /\ \A k \in 1..Len(Tail(modules)) : Tail(modules)[k] = crate.modules[Current + k]
<1>1. /\ Head(modules) \in Seq(DOMAIN crate.models) /\ Len(Tail(modules)) = Len(modules) - 1 /\ Len(modules) \in Nat \ {0}
      /\ Head(modules) = modules[1] /\ \A k \in 1..Len(Tail(modules)) : Tail(modules)[k] = modules[k + 1]
  BY HeadAndTail DEF TypeInv
<1>2. Len(emitted) \in Nat /\ Len(crate.modules) \in Nat /\ Len(emitted) + Len(modules) = Len(crate.modules)
      /\ \A k \in 1..Len(modules) : modules[k] = crate.modules[Len(emitted) + k]
  BY ModulesTyped DEF ModulesEmitted
<1>3. Current \in 1..Len(crate.modules) /\ Current = Len(emitted) + 1
  BY <1>1, <1>2 DEF Current
<1>4. ASSUME NEW k \in 1..(Len(modules) - 1)
      PROVE  Tail(modules)[k] = crate.modules[Current + k]
  <2>1. k + 1 \in 1..Len(modules) /\ Len(emitted) + (k + 1) = Current + k
    BY <1>1, <1>2, <1>3
  <2>2. modules[k + 1] = crate.modules[Len(emitted) + (k + 1)]
    BY <1>2, <2>1
  <2>3. Tail(modules)[k] = modules[k + 1]
    BY <1>1
  <2>4. QED
    BY <2>1, <2>2, <2>3
<1>5. 1 \in 1..Len(modules)
  BY <1>1
<1>6. QED
  BY <1>1, <1>2, <1>3, <1>4, <1>5

\* A module is complete.
LEMMA Completed ==
    ASSUME TypeInv, ModulesEmitted, CompleteRight, modules # <<>>, NEW serde \in HelperMaps(crate), NEW xml \in HelperMaps(crate),
           Settled(Pairs(crate, Current), ParamsAt, DOMAIN attrs, serde, xml),
           AllMadeBy(Pairs(crate, Current), ParamsAt, serde, xml),
           emitted' = Append(emitted, [serde |-> serde, xml |-> xml]), modules' = Tail(modules),
           UNCHANGED <<crate, formats, attrs>>
    PROVE  ModulesEmitted' /\ CompleteRight'
<1> DEFINE e == [serde |-> serde, xml |-> xml]
           n == Len(emitted)
<1>1. n \in Nat /\ Len(emitted') = n + 1 /\ emitted'[n + 1] = e /\ \A i \in 1..n : emitted'[i] = emitted[i]
  <2>1. e \in [serde : HelperMaps(crate), xml : HelperMaps(crate)]
    OBVIOUS
  <2> HIDE DEF e
  <2>2. QED
    BY <2>1, AppendProperties, LenProperties DEF TypeInv, e
<1>2. /\ Len(modules') = Len(modules) - 1 /\ Len(modules) \in Nat /\ Current = n + 1
      /\ \A k \in 1..Len(modules') : modules'[k] = crate.modules[Current + k]
  BY NextModule, ModulesTyped DEF Current
<1>3. n + Len(modules) = Len(crate.modules)
  BY DEF ModulesEmitted
<1>4. ParamsAt' = ParamsAt
  BY SameParams
<1>5. ModulesEmitted'
  <2>1. Len(emitted') + Len(modules') = Len(crate.modules)
    <3>1. \A a, b, c \in Nat : a + b = c => (a + 1) + (b - 1) = c
      OBVIOUS
    <3>2. n \in Nat /\ Len(modules) \in Nat /\ Len(crate.modules) \in Nat
      BY ModulesTyped
    <3>3. (n + 1) + (Len(modules) - 1) = Len(crate.modules)
      BY <1>3, <3>1, <3>2
    <3>4. QED
      BY <1>1, <1>2, <3>3
  <2>2. Len(emitted') = Current
    BY <1>1, <1>2
  <2>3. \A k \in 1..Len(modules') : modules'[k] = crate.modules[Len(emitted') + k]
    BY <1>2, <2>2
  <2>4. QED
    BY <2>1, <2>3 DEF ModulesEmitted
<1>6. CompleteRight'
  <2>1. ASSUME NEW i \in 1..(n + 1)
        PROVE  /\ Settled(Pairs(crate, i), ParamsAt, DOMAIN attrs, emitted'[i].serde, emitted'[i].xml)
               /\ AllMadeBy(Pairs(crate, i), ParamsAt, emitted'[i].serde, emitted'[i].xml)
    <3>1. CASE i = n + 1
      BY <1>1, <1>2, <3>1
    <3>2. CASE i # n + 1
      <4>1. i \in 1..n /\ emitted'[i] = emitted[i]
        BY <1>1, <3>2
      <4>2. QED
        BY <4>1 DEF CompleteRight
    <3>3. QED
      BY <3>1, <3>2
  <2>2. QED
    BY <1>1, <1>4, <2>1 DEF CompleteRight
<1>7. QED
  BY <1>5, <1>6

LEMMA EmissionInit == ASSUME Init PROVE EmissionInv
  BY DEF Init, EmissionInv

\* The fields of the current module.
LEMMA FieldsOfCurrent ==
    ASSUME TypeInv, ModulesEmitted, modules # <<>>
    PROVE  Elements(FieldsOfEach(Head(modules))) = Pairs(crate, Current)
<1>1. Head(modules) = crate.modules[Current] /\ Head(modules) \in Seq(DOMAIN crate.models)
  BY NextModule
<1>2. Elements(FieldsOfEach(Head(modules))) = UNION {{<<m, f>> : f \in Emitted(m)} : m \in Elements(Head(modules))}
  BY <1>1, FieldsOfEachTyped
<1>3. QED
  BY <1>1, <1>2 DEF Pairs, Emitted, Model

LEMMA NoHelpersMade == ASSUME NEW S, NEW params PROVE AllMadeBy(S, params, Empty, Empty)
  BY DEF AllMadeBy, MadeBy, Empty

\* The steps before and after the emission leave it alone.
EmissionAlone == UNCHANGED <<crate, formats, modules, fields, attrs, serdeHelpers, xmlListWrappers, emitted>>

LEMMA AloneKept ==
    ASSUME EmissionAlone
    PROVE  /\ ModulesEmitted' = ModulesEmitted /\ AttrsRight' = AttrsRight /\ CompleteRight' = CompleteRight
           /\ CurrentRight' = CurrentRight
<1>1. ParamsAt' = ParamsAt /\ AttrAt' = AttrAt /\ Current' = Current
  BY SameParams DEF EmissionAlone, Current
<1>2. QED
  BY <1>1 DEF EmissionAlone, ModulesEmitted, AttrsRight, CompleteRight, CurrentRight

\* A field gets its attribute, and the helpers that it names.
LEMMA FieldEmitted ==
    ASSUME TypeInv, FieldsEmitted, BodiesTaken, ModulesEmitted, AttrsRight, CompleteRight, CurrentRight, EmitField
    PROVE  AttrsRight' /\ CompleteRight' /\ CurrentRight' /\ ModulesEmitted'
<1> DEFINE x == Head(fields)
<1>1. /\ fields # <<>> /\ fields' = Tail(fields) /\ ~LiteralInCollection(x[2])
      /\ UNCHANGED <<crate, formats, modules, emitted>>
  BY DEF EmitField
<1>2. x = <<x[1], x[2]>> /\ x[1] \in DOMAIN crate.models /\ x[2] \in Emitted(x[1])
  <2>1. x \in Elements(fields)
    BY <1>1, HeadAndTail DEF TypeInv
  <2>2. QED
    BY <1>1, <2>1, FieldTaken DEF FieldsEmitted
<1>3. x \in AllPairs(crate)
  BY <1>2 DEF AllPairs, Emitted, Model
<1>4. /\ attrs' = With(attrs, <<x[1], x[2].name>>, AttrAt[x])
      /\ serdeHelpers' = MakeOnce(serdeHelpers, NamedIn(ParamsAt[x], "models_serde"), x[2])
      /\ xmlListWrappers' = MakeOnce(xmlListWrappers, NamedIn(ParamsAt[x], "xml_helpers"), x[2])
  BY <1>3 DEF EmitField, AttrAt, ParamsAt
<1>5. Elements(fields) = {x} \cup Elements(fields')
  BY <1>1, HeadAndTail DEF TypeInv
<1>6. ParamsAt' = ParamsAt /\ AttrAt' = AttrAt /\ Current' = Current
  BY <1>1, SameParams DEF Current
<1> HIDE DEF x
<1>7. /\ DOMAIN attrs' = DOMAIN attrs \cup {<<x[1], x[2].name>>}
      /\ \A k \in DOMAIN attrs' : attrs'[k] = IF k = <<x[1], x[2].name>> THEN AttrAt[x] ELSE attrs[k]
  BY <1>4 DEF With
<1>8. /\ DOMAIN serdeHelpers' = DOMAIN serdeHelpers \cup NamedIn(ParamsAt[x], "models_serde")
      /\ \A n \in DOMAIN serdeHelpers' : serdeHelpers'[n] = IF n \in DOMAIN serdeHelpers THEN serdeHelpers[n] ELSE x[2]
      /\ DOMAIN xmlListWrappers' = DOMAIN xmlListWrappers \cup NamedIn(ParamsAt[x], "xml_helpers")
      /\ \A n \in DOMAIN xmlListWrappers' : xmlListWrappers'[n] = IF n \in DOMAIN xmlListWrappers THEN xmlListWrappers[n] ELSE x[2]
  BY <1>4 DEF MakeOnce
<1>9. AttrsRight'
  <2>1. ASSUME NEW k \in DOMAIN attrs'
        PROVE  \E y \in AllPairs(crate) : k = <<y[1], y[2].name>> /\ attrs'[k] = AttrAt[y]
    <3>1. CASE k = <<x[1], x[2].name>>
      BY <1>3, <1>7, <3>1
    <3>2. CASE k # <<x[1], x[2].name>>
      BY <1>7, <3>2 DEF AttrsRight
    <3>3. QED
      BY <3>1, <3>2
  <2>2. QED
    BY <1>1, <1>6, <2>1 DEF AttrsRight
<1>10. CompleteRight'
  <2>1. DOMAIN attrs \subseteq DOMAIN attrs'
    BY <1>7
  <2>2. \A i \in 1..Len(emitted) : Settled(Pairs(crate, i), ParamsAt, DOMAIN attrs', emitted[i].serde, emitted[i].xml)
    BY <2>1 DEF CompleteRight, Settled
  <2>3. QED
    BY <1>1, <1>6, <2>2 DEF CompleteRight
<1>11. CurrentRight'
  <2> DEFINE S == Pairs(crate, Current)
  <2>1. x \in S /\ Elements(fields') \subseteq S
    BY <1>5 DEF CurrentRight
  <2>2. Settled(S \ Elements(fields'), ParamsAt, DOMAIN attrs', serdeHelpers', xmlListWrappers')
    <3>1. ASSUME NEW y \in S \ Elements(fields')
          PROVE  /\ <<y[1], y[2].name>> \in DOMAIN attrs' /\ ~LiteralInCollection(y[2])
                 /\ NamedIn(ParamsAt[y], "models_serde") \subseteq DOMAIN serdeHelpers'
                 /\ NamedIn(ParamsAt[y], "xml_helpers") \subseteq DOMAIN xmlListWrappers'
      <4>1. CASE y = x
        BY <1>1, <1>7, <1>8, <4>1 DEF x
      <4>2. CASE y # x
        <5>1. y \in S \ Elements(fields)
          BY <1>5, <4>2
        <5>2. QED
          BY <1>7, <1>8, <5>1 DEF CurrentRight, Settled
      <4>3. QED
        BY <4>1, <4>2
    <3>2. QED
      BY <3>1 DEF Settled
  <2>3. MadeBy(S, ParamsAt, serdeHelpers', "models_serde")
    <3>1. ASSUME NEW n \in DOMAIN serdeHelpers'
          PROVE  \E y \in S : n \in NamedIn(ParamsAt[y], "models_serde") /\ serdeHelpers'[n] = y[2] /\ ~LiteralInCollection(y[2])
      <4>1. CASE n \in DOMAIN serdeHelpers
        BY <1>8, <4>1 DEF CurrentRight, AllMadeBy, MadeBy
      <4>2. CASE n \notin DOMAIN serdeHelpers
        BY <1>1, <1>8, <2>1, <4>2 DEF x
      <4>3. QED
        BY <4>1, <4>2
    <3>2. QED
      BY <3>1 DEF MadeBy
  <2>4. MadeBy(S, ParamsAt, xmlListWrappers', "xml_helpers")
    <3>1. ASSUME NEW n \in DOMAIN xmlListWrappers'
          PROVE  \E y \in S : n \in NamedIn(ParamsAt[y], "xml_helpers") /\ xmlListWrappers'[n] = y[2] /\ ~LiteralInCollection(y[2])
      <4>1. CASE n \in DOMAIN xmlListWrappers
        BY <1>8, <4>1 DEF CurrentRight, AllMadeBy, MadeBy
      <4>2. CASE n \notin DOMAIN xmlListWrappers
        BY <1>1, <1>8, <2>1, <4>2 DEF x
      <4>3. QED
        BY <4>1, <4>2
    <3>2. QED
      BY <3>1 DEF MadeBy
  <2>5. QED
    BY <1>1, <1>6, <2>1, <2>2, <2>3, <2>4 DEF CurrentRight, AllMadeBy
<1>12. ModulesEmitted'
  BY <1>1 DEF ModulesEmitted
<1>13. QED
  BY <1>9, <1>10, <1>11, <1>12

LEMMA EmissionStep == ASSUME FormatsInv, EmissionInv, Next PROVE EmissionInv'
<1>0. TypeInv /\ FieldsEmitted /\ BodiesTaken
  BY DEF FormatsInv
<1>1. CASE TakeBody \/ AddBodyFormat
  <2>1. pc = "formats" /\ pc' = pc /\ UNCHANGED <<crate, attrs, emitted, modules>>
    BY <1>1 DEF TakeBody, AddBodyFormat
  <2>2. QED
    BY <2>1 DEF EmissionInv
<1>2. CASE ConflictingFormats \/ UnexpectedKind \/ NoUnionMember
  <2>1. pc' = "failed"
    BY <1>2 DEF ConflictingFormats, UnexpectedKind, NoUnionMember, Fail
  <2>2. QED
    BY <2>1 DEF EmissionInv
<1>3. CASE FormatsDone
  <2>1. pc = "formats" /\ pc' = "modules" /\ UNCHANGED <<crate, attrs, emitted, modules>>
    BY <1>3 DEF FormatsDone, emission
  <2>2. attrs = Empty /\ emitted = <<>> /\ modules = crate.modules /\ DOMAIN Empty = {}
    BY <2>1 DEF EmissionInv, Empty
  <2>3. Len(modules) \in Nat /\ Len(emitted) = 0
    BY <1>0, <2>2, ModulesTyped
  <2>4. ModulesEmitted /\ AttrsRight /\ CompleteRight
    BY <2>2, <2>3 DEF ModulesEmitted, AttrsRight, CompleteRight
  <2>5. EmissionAlone
    BY <1>3 DEF FormatsDone, emission, EmissionAlone
  <2>6. ModulesEmitted' /\ AttrsRight' /\ CompleteRight'
    BY <2>4, <2>5, AloneKept
  <2>7. QED
    BY <2>1, <2>6 DEF EmissionInv
<1>4. CASE EmitModels
  <2>1. /\ pc = "modules" /\ pc' = "fields" /\ modules # <<>>
        /\ fields' = FieldsOfEach(Head(modules)) /\ serdeHelpers' = Empty /\ xmlListWrappers' = Empty
        /\ UNCHANGED <<crate, formats, modules, attrs, emitted>>
    BY <1>4 DEF EmitModels, FieldsOfEach
  <2>2. ModulesEmitted /\ AttrsRight /\ CompleteRight
    BY <2>1 DEF EmissionInv
  <2>3. Elements(fields') = Pairs(crate, Current)
    BY <1>0, <2>1, <2>2, FieldsOfCurrent
  <2>4. ParamsAt' = ParamsAt /\ AttrAt' = AttrAt /\ Current' = Current
    BY <2>1, SameParams DEF Current
  <2>5. ModulesEmitted' /\ AttrsRight' /\ CompleteRight'
    BY <2>1, <2>2, <2>4 DEF ModulesEmitted, AttrsRight, CompleteRight
  <2>6. Settled(Pairs(crate, Current) \ Elements(fields'), ParamsAt, DOMAIN attrs', serdeHelpers', xmlListWrappers')
    BY <2>3 DEF Settled
  <2>7. AllMadeBy(Pairs(crate, Current), ParamsAt, serdeHelpers', xmlListWrappers')
    BY <2>1, NoHelpersMade
  <2>8. CurrentRight'
    BY <2>1, <2>3, <2>4, <2>6, <2>7 DEF CurrentRight
  <2>9. QED
    BY <2>1, <2>5, <2>8 DEF EmissionInv
<1>5. CASE NoModels
  <2>1. /\ pc = "modules" /\ pc' = pc /\ modules # <<>> /\ Head(modules) = <<>>
        /\ emitted' = Append(emitted, [serde |-> Empty, xml |-> Empty]) /\ modules' = Tail(modules)
        /\ UNCHANGED <<crate, formats, attrs>>
    BY <1>5 DEF NoModels
  <2>2. ModulesEmitted /\ AttrsRight /\ CompleteRight
    BY <2>1 DEF EmissionInv
  <2>3. Pairs(crate, Current) = {}
    <3>1. crate.modules[Current] = <<>>
      BY <1>0, <2>1, <2>2, NextModule
    <3>2. Elements(<<>>) = {}
      BY DEF Elements
    <3>3. QED
      BY <3>1, <3>2 DEF Pairs
  <2>4. Settled(Pairs(crate, Current), ParamsAt, DOMAIN attrs, Empty, Empty)
    BY <2>3 DEF Settled
  <2>5. ModulesEmitted' /\ CompleteRight'
    <3>1. Empty \in HelperMaps(crate) /\ AllMadeBy(Pairs(crate, Current), ParamsAt, Empty, Empty)
      BY EmptyTyped, NoHelpersMade
    <3>2. QED
      BY <1>0, <2>1, <2>2, <2>4, <3>1, Completed
  <2>6. AttrsRight'
    BY <2>1, <2>2, SameParams DEF AttrsRight
  <2>7. QED
    BY <2>1, <2>5, <2>6 DEF EmissionInv
<1>6. CASE EmitField
  <2>1. pc = "fields" /\ pc' = pc
    BY <1>6 DEF EmitField
  <2>2. ModulesEmitted /\ AttrsRight /\ CompleteRight /\ CurrentRight
    BY <2>1 DEF EmissionInv
  <2>3. AttrsRight' /\ CompleteRight' /\ CurrentRight' /\ ModulesEmitted'
    BY <1>0, <1>6, <2>2, FieldEmitted
  <2>4. QED
    BY <2>1, <2>3 DEF EmissionInv
<1>7. CASE EmitHelpers
  <2>1. /\ pc = "fields" /\ pc' = "modules" /\ fields = <<>> /\ modules # <<>>
        /\ emitted' = Append(emitted, [serde |-> serdeHelpers, xml |-> xmlListWrappers]) /\ modules' = Tail(modules)
        /\ UNCHANGED <<crate, formats, attrs>>
    BY <1>0, <1>7 DEF EmitHelpers, TypeInv
  <2>2. ModulesEmitted /\ AttrsRight /\ CompleteRight /\ CurrentRight
    BY <2>1 DEF EmissionInv
  <2>3. Elements(fields) = {}
    BY <2>1 DEF Elements
  <2>4. /\ Settled(Pairs(crate, Current), ParamsAt, DOMAIN attrs, serdeHelpers, xmlListWrappers)
        /\ AllMadeBy(Pairs(crate, Current), ParamsAt, serdeHelpers, xmlListWrappers)
    <3>1. Pairs(crate, Current) \ Elements(fields) = Pairs(crate, Current)
      BY <2>3
    <3>2. QED
      BY <2>2, <3>1 DEF CurrentRight
  <2>5. serdeHelpers \in HelperMaps(crate) /\ xmlListWrappers \in HelperMaps(crate)
    BY <1>0 DEF TypeInv
  <2>6. ModulesEmitted' /\ CompleteRight'
    BY <1>0, <2>1, <2>2, <2>4, <2>5, Completed
  <2>7. AttrsRight'
    BY <2>1, <2>2, SameParams DEF AttrsRight
  <2>8. QED
    BY <2>1, <2>6, <2>7 DEF EmissionInv
<1>8. CASE ModelsDone \/ Send \/ Answer \/ Read \/ Finished
  <2>1. EmissionAlone
    BY <1>8 DEF ModelsDone, Send, Answer, Read, Finished, vars, emission, EmissionAlone
  <2>2. \/ pc \in {"modules", "ready", "sent", "answered", "read"} /\ pc' \in {"ready", "sent", "answered", "read"}
           /\ modules = <<>>
        \/ pc' = "failed"
    BY <1>8 DEF ModelsDone, Send, Answer, Read, Finished, vars, EmissionInv
  <2>3. modules' = modules
    BY <2>1 DEF EmissionAlone
  <2>4. CASE pc' = "failed"
    BY <2>4 DEF EmissionInv
  <2>5. CASE pc' # "failed"
    <3>1. ModulesEmitted /\ AttrsRight /\ CompleteRight
      BY <2>2, <2>5 DEF EmissionInv
    <3>2. ModulesEmitted' /\ AttrsRight' /\ CompleteRight'
      BY <2>1, <3>1, AloneKept
    <3>3. QED
      BY <2>2, <2>3, <2>5, <3>2 DEF EmissionInv
  <2>6. QED
    BY <2>4, <2>5
<1>9. QED
  BY <1>1, <1>2, <1>3, <1>4, <1>5, <1>6, <1>7, <1>8 DEF Next

SerdeInv == FormatsInv /\ EmissionInv

LEMMA SerdeStep == ASSUME SerdeInv, [Next]_vars PROVE SerdeInv'
<1>1. FormatsInv'
  BY FormatsStep DEF SerdeInv
<1>2. CASE Next
  BY <1>1, <1>2, EmissionStep DEF SerdeInv
<1>3. CASE UNCHANGED vars
  <2>1. EmissionAlone /\ pc' = pc
    BY <1>3 DEF vars, emission, EmissionAlone
  <2>2. /\ ModulesEmitted' = ModulesEmitted /\ AttrsRight' = AttrsRight /\ CompleteRight' = CompleteRight
        /\ CurrentRight' = CurrentRight
    BY <2>1, AloneKept
  <2>3. EmissionInv'
    BY <2>1, <2>2 DEF SerdeInv, EmissionInv, EmissionAlone
  <2>4. QED
    BY <1>1, <2>3 DEF SerdeInv
<1>4. QED
  BY <1>2, <1>3

\* Whatever crate is given, every field that has been emitted has the
\* attribute of its property and format, the helpers that this names were
\* made in its module, and each for a field that names it (emitModels).
THEOREM SerdeInvariant == Spec => []SerdeInv
<1>1. Init => SerdeInv
  BY FormatsInit, EmissionInit DEF SerdeInv
<1>2. SerdeInv /\ [Next]_vars => SerdeInv'
  BY SerdeStep
<1>3. QED
  BY <1>1, <1>2, PTL DEF Spec

----------------------------------------------------------------------------
(* The names of helpers. *)

LEMMA Prefixed ==
    ASSUME NEW S, NEW s \in Seq(S), NEW a
    PROVE  (<<a>> \o s)[1] = a /\ Tail(<<a>> \o s) = s /\ <<a>> \o s # <<>>
<1> DEFINE T == S \cup {a}
           u == <<a>> \o s
<1>1. <<a>> \in Seq(T) /\ s \in Seq(T) /\ Len(<<a>>) = 1 /\ Len(s) \in Nat /\ <<a>>[1] = a
  <2>1. S \subseteq T
    OBVIOUS
  <2> HIDE DEF T
  <2>2. s \in Seq(T)
    BY <2>1
  <2>3. a \in T
    BY DEF T
  <2>4. QED
    BY <2>2, <2>3, LenProperties
<1> HIDE DEF T
<1>2. u \in Seq(T) /\ Len(u) = 1 + Len(s) /\ \A i \in 1..Len(u) : u[i] = IF i <= 1 THEN <<a>>[i] ELSE s[i - 1]
  BY <1>1, ConcatProperties
<1>3. u # <<>> /\ 1 \in 1..Len(u)
  BY <1>1, <1>2, EmptySeq
<1>4. u[1] = a
  BY <1>1, <1>2, <1>3
<1> HIDE DEF u
<1>5. Tail(u) \in Seq(T) /\ Len(Tail(u)) = Len(s) /\ \A i \in 1..Len(s) : Tail(u)[i] = u[i + 1]
  BY <1>1, <1>2, <1>3, HeadAndTail
<1>6. \A i \in 1..Len(s) : Tail(u)[i] = s[i]
  <2>1. ASSUME NEW i \in 1..Len(s)
        PROVE  u[i + 1] = s[i]
    <3>1. i + 1 \in 1..Len(u) /\ ~(i + 1 <= 1) /\ (i + 1) - 1 = i
      BY <1>1, <1>2
    <3>2. QED
      BY <1>2, <3>1
  <2>2. QED
    BY <1>5, <2>1
<1>7. Tail(u) = s
  BY <1>1, <1>5, <1>6, SeqEqual
<1>8. QED
  BY <1>3, <1>4, <1>7 DEF u

\* The pieces that the names of helpers are made of.
Words == STRING \cup Wrappers \cup Kinds \cup {"serialize", "serialize_optional", "_", "point"}

LEMMA NameParts ==
    ASSUME NEW c, NEW t \in Types(c)
    PROVE  /\ SerDeModName(t) \in Seq(Words) /\ Len(SerDeModName(t)) = Len(t.wraps) + 2 /\ Len(t.wraps) \in Nat
           /\ \A i \in 1..Len(t.wraps) : SerDeModName(t)[i] = t.wraps[i] /\ t.wraps[i] \in Wrappers
           /\ SerDeModName(t)[Len(t.wraps) + 1] = t.leaf.kind /\ SerDeModName(t)[Len(t.wraps) + 2] = t.leaf.enc
<1> DEFINE s == <<t.leaf.kind, t.leaf.enc>>
           n == Len(t.wraps)
           u == t.wraps \o s
<1>1. t.wraps \in Seq(Wrappers) /\ n \in Nat /\ (\A i \in 1..n : t.wraps[i] \in Wrappers) /\ t.leaf.kind \in Kinds /\ t.leaf.enc \in STRING
  BY TypeParts, LenProperties, ElementOfSeq
<1>2. t.wraps \in Seq(Words)
  <2>1. Wrappers \subseteq Words
    BY DEF Words
  <2>2. QED
    BY <1>1, <2>1
<1>3. t.leaf.kind \in Words /\ t.leaf.enc \in Words
  BY <1>1 DEF Words
<1>4. s \in Seq(Words) /\ Len(s) = 2 /\ s[1] = t.leaf.kind /\ s[2] = t.leaf.enc
  BY <1>3
<1> HIDE DEF s
<1>5. u \in Seq(Words) /\ Len(u) = n + 2 /\ \A i \in 1..(n + 2) : u[i] = IF i <= n THEN t.wraps[i] ELSE s[i - n]
  <2>1. /\ u \in Seq(Words) /\ Len(u) = Len(t.wraps) + Len(s)
        /\ \A i \in 1..(Len(t.wraps) + Len(s)) : u[i] = IF i <= Len(t.wraps) THEN t.wraps[i] ELSE s[i - Len(t.wraps)]
    BY <1>2, <1>4, ConcatProperties
  <2>2. QED
    BY <1>4, <2>1
<1>6. u[n + 1] = t.leaf.kind /\ u[n + 2] = t.leaf.enc
  <2>1. n + 1 \in 1..(n + 2) /\ n + 2 \in 1..(n + 2) /\ ~(n + 1 <= n) /\ ~(n + 2 <= n) /\ (n + 1) - n = 1 /\ (n + 2) - n = 2
    BY <1>1
  <2>2. QED
    BY <1>4, <1>5, <2>1
<1>7. \A i \in 1..n : u[i] = t.wraps[i] /\ t.wraps[i] \in Wrappers
  BY <1>1, <1>5
<1>8. QED
  BY <1>1, <1>5, <1>6, <1>7 DEF SerDeModName, s

\* The name of a helper tells the type it is for.
LEMMA NameTells ==
    ASSUME NEW c, NEW t \in Types(c), NEW u \in Types(c), SerDeModName(t) = SerDeModName(u)
    PROVE  t.wraps = u.wraps /\ t.leaf.kind = u.leaf.kind /\ t.leaf.enc = u.leaf.enc
<1> DEFINE n == Len(t.wraps)
           s == SerDeModName(t)
<1>1. /\ Len(s) = n + 2 /\ n \in Nat
      /\ \A i \in 1..n : s[i] = t.wraps[i]
      /\ s[n + 1] = t.leaf.kind /\ s[n + 2] = t.leaf.enc
  BY NameParts
<1>2. /\ Len(s) = Len(u.wraps) + 2 /\ Len(u.wraps) \in Nat
      /\ \A i \in 1..Len(u.wraps) : s[i] = u.wraps[i]
      /\ s[Len(u.wraps) + 1] = u.leaf.kind /\ s[Len(u.wraps) + 2] = u.leaf.enc
  BY NameParts
<1> HIDE DEF s
<1>3. Len(u.wraps) = n
  BY <1>1, <1>2
<1>4. t.wraps \in Seq(Wrappers) /\ u.wraps \in Seq(Wrappers)
  BY TypeParts
<1>5. t.wraps = u.wraps
  BY <1>1, <1>2, <1>3, <1>4, SeqEqual
<1>6. QED
  BY <1>1, <1>2, <1>3, <1>5

LEMMA IdentifierTyped == ASSUME NEW leaf, leaf.of \in Seq(STRING) PROVE Identifier(leaf) \in Seq(Words)
<1> DEFINE Word(i) == Converted(leaf, leaf.of[i])
           Repeated(i) == Word(i) = "_" /\ (i = 1 \/ Word(i - 1) = "_")
           ss == [i \in DOMAIN leaf.of |-> IF Repeated(i) THEN <<>> ELSE <<Word(i)>>]
           n == Len(leaf.of)
<1>1. n \in Nat /\ DOMAIN leaf.of = 1..n /\ \A i \in 1..n : leaf.of[i] \in STRING
  BY LenProperties, ElementOfSeq
<1>2. \A i \in 1..n : Word(i) \in Words
  BY <1>1 DEF Converted, Words
<1>3. ss \in [1..n -> Seq(Words)]
  <2>1. \A i \in 1..n : <<Word(i)>> \in Seq(Words)
    BY <1>2
  <2> HIDE DEF Repeated, Word
  <2>2. QED
    BY <1>1, <2>1
<1>4. Identifier(leaf) = FlattenSeq(ss)
  BY DEF Identifier
<1> HIDE DEF ss
<1>5. QED
  BY <1>1, <1>3, <1>4, Flattened

LEMMA LiteralParts ==
    ASSUME NEW c, NEW f \in FieldTypes(c)
    PROVE  /\ LiteralName(f) \in Seq(Words) /\ LiteralName(f) # <<>>
           /\ LiteralName(f)[2] = f.type.leaf.enc
           /\ LiteralName(f)[1] = IF f.optional THEN "serialize_optional" ELSE "serialize"
<1> DEFINE a == IF f.optional THEN "serialize_optional" ELSE "serialize"
           s == <<a, f.type.leaf.enc>>
           r == Identifier(f.type.leaf)
<1>1. f.type \in Types(c)
  BY DEF FieldTypes
<1>2. f.type.leaf.enc \in STRING /\ f.type.leaf.of \in Seq(STRING)
  BY <1>1, TypeParts
<1>3. s \in Seq(Words) /\ Len(s) = 2 /\ s[1] = a /\ s[2] = f.type.leaf.enc
  <2>1. a \in Words /\ f.type.leaf.enc \in Words
    BY <1>2 DEF Words
  <2> HIDE DEF a
  <2>2. QED
    BY <2>1
<1>4. r \in Seq(Words) /\ Len(r) \in Nat
  BY <1>2, IdentifierTyped, LenProperties
<1> HIDE DEF s, r, a
<1>5. s \o r \in Seq(Words) /\ Len(s \o r) = 2 + Len(r) /\ \A i \in 1..Len(s \o r) : (s \o r)[i] = IF i <= 2 THEN s[i] ELSE r[i - 2]
  <2>1. /\ s \o r \in Seq(Words) /\ Len(s \o r) = Len(s) + Len(r)
        /\ \A i \in 1..(Len(s) + Len(r)) : (s \o r)[i] = IF i <= Len(s) THEN s[i] ELSE r[i - Len(s)]
    BY <1>3, <1>4, ConcatProperties
  <2>2. QED
    BY <1>3, <2>1
<1>6. 1 \in 1..Len(s \o r) /\ 2 \in 1..Len(s \o r)
  BY <1>4, <1>5
<1>7. (s \o r)[1] = a /\ (s \o r)[2] = f.type.leaf.enc /\ s \o r # <<>>
  BY <1>3, <1>5, <1>6, EmptySeq
<1>8. QED
  BY <1>5, <1>7 DEF LiteralName, s, r, a

\* The name of a literal is that of no other helper.
LEMMA LiteralsNamedApart ==
    ASSUME NEW c, NEW f \in FieldTypes(c), NEW t \in Types(c)
    PROVE  LiteralName(f) # SerDeModName(t)
<1> DEFINE n == Len(t.wraps)
<1>1. n \in Nat /\ (\A i \in 1..n : SerDeModName(t)[i] \in Wrappers) /\ SerDeModName(t)[n + 1] = t.leaf.kind /\ t.leaf.kind \in Kinds
  BY NameParts, TypeParts
<1>2. SerDeModName(t)[1] \in Wrappers \cup Kinds
  <2>1. CASE n = 0
    BY <1>1, <2>1
  <2>2. CASE n # 0
    <3>1. 1 \in 1..n
      BY <1>1, <2>2
    <3>2. QED
      BY <1>1, <3>1
  <2>3. QED
    BY <2>1, <2>2
<1>3. LiteralName(f)[1] \in {"serialize_optional", "serialize"}
  BY LiteralParts
<1>4. QED
  BY <1>2, <1>3 DEF Wrappers, Kinds

----------------------------------------------------------------------------
(* The options of an attribute. *)

\* The fields whose helper is in models_serde, by its name.
InModelsSerde(f, format) ==
    /\ HasHelper(f.type.leaf) /\ ~EncodeAsString(f.type.leaf)
    /\ ~(Direct(f.type) /\ f.type.leaf.kind = "encodedBytes")
    /\ ~(Direct(f.type) /\ f.type.leaf.kind = "offsetDateTime" /\ CoreTime(f, format))

HelperName(f) == IF Direct(f.type) /\ IsLiteral(f.type.leaf) THEN LiteralName(f) ELSE SerDeModName(f.type)

\* Every option of a field that names a function.
CodecsOf(f, format) == {p \in CodecParams(f, format) \cup DecimalParams(f) : p.key \in Codecs}

LEMMA OtherOptions ==
    ASSUME NEW f, NEW visible, NEW p \in RenameParams(f) \cup SkipParams(f) \cup DefaultParams(f, visible)
    PROVE  p.key \notin Codecs
  BY DEF RenameParams, SkipParams, DefaultParams, Default, Param, Codecs

LEMMA OnlyCodecs ==
    ASSUME NEW f, NEW format, NEW visible
    PROVE  {p \in SerdeParams(f, format, visible) : p.key \in Codecs} = CodecsOf(f, format)
  BY OtherOptions DEF SerdeParams, CodecsOf

LEMMA HelperPathIs ==
    ASSUME NEW c, NEW f \in FieldTypes(c), NEW format, HasHelper(UnwrapType(f.type)), ~LiteralInCollection(f)
    PROVE  /\ UnwrapType(f.type) = f.type.leaf
           /\ InModelsSerde(f, format) => HelperPath(f, format)[1] = "models_serde" /\ Tail(HelperPath(f, format)) = HelperName(f)
           /\ ~InModelsSerde(f, format) => HelperPath(f, format)[1] \in {"as_string", "base64", "time"}
           /\ HelperPath(f, format) # <<>>
<1> DEFINE leaf == f.type.leaf
           path == HelperPath(f, format)
<1>1. UnwrapType(f.type) = leaf
  BY DEF UnwrapType, HasHelper, EncodeAsString
<1>2. f.type \in Types(c) /\ leaf.enc \in STRING /\ HasHelper(leaf)
  BY <1>1, TypeParts DEF FieldTypes
<1>3. CASE EncodeAsString(leaf)
  <2>1. path = <<"as_string">>
    BY <1>3 DEF HelperPath
  <2>2. QED
    BY <1>1, <1>3, <2>1 DEF InModelsSerde
<1>4. CASE ~EncodeAsString(leaf) /\ Direct(f.type) /\ leaf.kind = "encodedBytes"
  <2>1. path = <<"base64", leaf.enc>> \o OptionPath(f.type)
    BY <1>4 DEF HelperPath
  <2>2. path[1] = "base64" /\ path # <<>>
    BY <2>1 DEF OptionPath
  <2>3. QED
    BY <1>1, <1>4, <2>2 DEF InModelsSerde
<1>5. CASE Direct(f.type) /\ IsLiteral(leaf)
  <2>1. path = <<"models_serde">> \o LiteralName(f) /\ InModelsSerde(f, format) /\ HelperName(f) = LiteralName(f)
    BY <1>2, <1>5 DEF HelperPath, EncodeAsString, IsLiteral, InModelsSerde, HelperName
  <2>2. LiteralName(f) \in Seq(Words)
    BY LiteralParts
  <2>3. QED
    BY <1>1, <2>1, <2>2, Prefixed
<1>6. CASE ~EncodeAsString(leaf) /\ Direct(f.type) /\ leaf.kind = "offsetDateTime" /\ CoreTime(f, format)
  <2>1. path = <<"time", leaf.enc>> \o OptionPath(f.type)
    BY <1>6 DEF HelperPath, IsLiteral
  <2>2. path[1] = "time" /\ path # <<>>
    BY <2>1 DEF OptionPath
  <2>3. QED
    BY <1>1, <1>6, <2>2 DEF InModelsSerde
<1>7. CASE InModelsSerde(f, format) /\ ~(Direct(f.type) /\ IsLiteral(leaf))
  <2>1. path = <<"models_serde">> \o SerDeModName(f.type) /\ HelperName(f) = SerDeModName(f.type)
    BY <1>7 DEF HelperPath, InModelsSerde, HelperName
  <2>2. SerDeModName(f.type) \in Seq(Words)
    BY <1>2, NameParts
  <2>3. QED
    BY <1>1, <1>7, <2>1, <2>2, Prefixed
<1>8. QED
  BY <1>2, <1>3, <1>4, <1>5, <1>6, <1>7 DEF InModelsSerde

LEMMA WrapperPathIs ==
    ASSUME NEW f
    PROVE  /\ (<<"xml_helpers">> \o WrapperName(f))[1] = "xml_helpers"
           /\ Tail(<<"xml_helpers">> \o WrapperName(f)) = WrapperName(f)
           /\ <<"xml_helpers">> \o WrapperName(f) # <<>>
<1> DEFINE S == {f.name, ItemName(f.type)}
<1>1. WrapperName(f) \in Seq(S)
  BY DEF WrapperName
<1> HIDE DEF S
<1>2. QED
  BY <1>1, Prefixed

\* The functions that a field names to be written and to be read.
SerOf(f, format) ==
    IF HasHelper(UnwrapType(f.type)) THEN HelperPath(f, format)
    ELSE IF IsWrappedList(f, format) THEN <<"xml_helpers">> \o WrapperName(f)
    ELSE IF DecimalParams(f) # {} THEN <<"float">> \o (IF Outer(f.type) = "option" THEN <<"option">> ELSE <<>>)
    ELSE <<"derive">>

DeOf(f, format) ==
    IF Custom(f) THEN <<"custom">>
    ELSE IF HasHelper(UnwrapType(f.type)) /\ Direct(f.type) /\ IsLiteral(UnwrapType(f.type)) THEN <<"derive">>
    ELSE IF HasHelper(UnwrapType(f.type)) \/ IsWrappedList(f, format) \/ ~f.emptyAsNull THEN SerOf(f, format)
    ELSE <<"empty_as_null">>

Named(params, key) == {p \in params : p.key \in {key, "with"}}

LEMMA PathOfOne ==
    ASSUME NEW params, NEW key, NEW p, Named(params, key) = {p}
    PROVE  PathOf(params, key) = p.path /\ Cardinality(Named(params, key)) <= 1
<1>1. Cardinality({p}) = 1
  BY FS_Singleton
<1>2. (CHOOSE q \in {p} : TRUE) = p
  OBVIOUS
<1>3. QED
  BY <1>1, <1>2 DEF PathOf, Named

LEMMA PathOfNone ==
    ASSUME NEW params, NEW key, Named(params, key) = {}
    PROVE  PathOf(params, key) = <<"derive">> /\ Cardinality(Named(params, key)) <= 1
<1>1. Cardinality({}) = 0
  BY FS_EmptySet
<1>2. QED
  BY <1>1 DEF PathOf, Named

LEMMA NamedCodecs ==
    ASSUME NEW f, NEW format, NEW visible, NEW key \in {"serialize_with", "deserialize_with"}
    PROVE  Named(SerdeParams(f, format, visible), key) = Named(CodecParams(f, format) \cup DecimalParams(f), key)
<1>1. \A p \in RenameParams(f) \cup SkipParams(f) \cup DefaultParams(f, visible) : p.key \notin {key, "with"}
  BY OtherOptions DEF Codecs
<1>2. QED
  BY <1>1 DEF Named, SerdeParams

LEMMA DecimalsPlain ==
    ASSUME NEW c, NEW f \in FieldTypes(c), NEW format, FieldSupported(f, format), DecimalParams(f) # {}
    PROVE  /\ ~HasHelper(UnwrapType(f.type)) /\ ~IsWrappedList(f, format) /\ ~Custom(f) /\ ~f.emptyAsNull
           /\ UnwrapType(f.type) = f.type.leaf /\ f.type.leaf.kind = "decimal" /\ f.type.wraps \in {<<>>, <<"option">>}
<1> DEFINE leaf == UnwrapType(f.type)
<1>1. leaf.kind = "decimal" /\ leaf.enc # "string"
  BY DEF DecimalParams
<1>2. f.type.wraps \in {<<>>, <<"option">>} /\ ~Custom(f) /\ ~f.emptyAsNull
  BY <1>1 DEF FieldSupported
<1>3. leaf = f.type.leaf
  BY <1>1 DEF UnwrapType
<1>4. ~HasHelper(leaf)
  BY <1>1 DEF HasHelper, EncodeAsString
<1>5. Outer(UnwrapOption(f.type)) = "decimal"
  <2>1. f.type \in Types(c)
    BY DEF FieldTypes
  <2>2. f.type = [wraps |-> f.type.wraps, leaf |-> f.type.leaf]
    BY <2>1, TypeParts
  <2>3. CASE f.type.wraps = <<>>
    BY <1>1, <1>3, <2>3 DEF Outer, UnwrapOption
  <2>4. CASE f.type.wraps = <<"option">>
    <3>1. Outer(f.type) = "option" /\ Tail(<<"option">>) = <<>>
      BY <2>4 DEF Outer
    <3>2. UnwrapOption(f.type) = [wraps |-> <<>>, leaf |-> f.type.leaf]
      BY <2>2, <2>4, <3>1 DEF UnwrapOption, Inner
    <3>3. QED
      BY <1>1, <1>3, <3>2 DEF Outer
  <2>5. QED
    BY <1>2, <2>3, <2>4
<1>6. ~IsWrappedList(f, format)
  BY <1>5 DEF IsWrappedList
<1>7. QED
  BY <1>1, <1>2, <1>3, <1>4, <1>6

\* What the options of a field name, in both directions.
LEMMA CodecPaths ==
    ASSUME NEW c, NEW f \in FieldTypes(c), NEW format, NEW visible, FieldSupported(f, format)
    PROVE  LET params == SerdeParams(f, format, visible)
           IN /\ PathOf(params, "serialize_with") = SerOf(f, format)
              /\ PathOf(params, "deserialize_with") = DeOf(f, format)
              /\ Cardinality(Named(params, "serialize_with")) <= 1
              /\ Cardinality(Named(params, "deserialize_with")) <= 1
<1> DEFINE params == SerdeParams(f, format, visible)
           leaf   == UnwrapType(f.type)
           S      == CodecParams(f, format) \cup DecimalParams(f)
           custom == Param("deserialize_with", <<"custom">>)
           Right  == /\ PathOf(params, "serialize_with") = SerOf(f, format)
                     /\ PathOf(params, "deserialize_with") = DeOf(f, format)
                     /\ Cardinality(Named(params, "serialize_with")) <= 1
                     /\ Cardinality(Named(params, "deserialize_with")) <= 1
<1>0. SUFFICES Right
  BY DEF params
<1>1. Named(params, "serialize_with") = Named(S, "serialize_with") /\ Named(params, "deserialize_with") = Named(S, "deserialize_with")
  BY NamedCodecs
<1> HIDE DEF params
<1>1a. custom.path = <<"custom">> /\ custom.key = "deserialize_with"
  BY DEF Param
<1> HIDE DEF custom
<1>2. CASE HasHelper(leaf) /\ Direct(f.type) /\ IsLiteral(leaf)
  <2> DEFINE p == Param("serialize_with", HelperPath(f, format))
  <2>1. CodecParams(f, format) = CustomParams(f) \cup {p} /\ DecimalParams(f) = {} /\ CustomParams(f) = IF Custom(f) THEN {custom} ELSE {}
    BY <1>2 DEF CodecParams, DecimalParams, IsLiteral, CustomParams, custom
  <2>2. SerOf(f, format) = p.path /\ DeOf(f, format) = (IF Custom(f) THEN custom.path ELSE <<"derive">>) /\ p.key = "serialize_with"
    BY <1>1a, <1>2 DEF SerOf, DeOf, Param
  <2> HIDE DEF p
  <2>3. Named(S, "serialize_with") = {p} /\ Named(S, "deserialize_with") = IF Custom(f) THEN {custom} ELSE {}
    BY <1>1a, <2>1, <2>2 DEF Named
  <2>4. PathOf(params, "serialize_with") = p.path /\ Cardinality(Named(params, "serialize_with")) <= 1
    BY <1>1, <2>3, PathOfOne
  <2>5. Named(params, "deserialize_with") = {custom} =>
          PathOf(params, "deserialize_with") = custom.path /\ Cardinality(Named(params, "deserialize_with")) <= 1
    BY PathOfOne
  <2>6. Named(params, "deserialize_with") = {} =>
          PathOf(params, "deserialize_with") = <<"derive">> /\ Cardinality(Named(params, "deserialize_with")) <= 1
    BY PathOfNone
  <2> HIDE DEF S
  <2>7. CASE Custom(f)
    BY <1>1, <2>2, <2>3, <2>4, <2>5, <2>7
  <2>8. CASE ~Custom(f)
    BY <1>1, <2>2, <2>3, <2>4, <2>6, <2>8
  <2>9. QED
    BY <2>7, <2>8
<1>3. CASE /\ HasHelper(leaf) \/ IsWrappedList(f, format)
           /\ ~(HasHelper(leaf) /\ Direct(f.type) /\ IsLiteral(leaf))
  <2> DEFINE path == IF HasHelper(leaf) THEN HelperPath(f, format) ELSE <<"xml_helpers">> \o WrapperName(f)
             both == Param("with", path)
             ser  == Param("serialize_with", path)
  <2>1. DecimalParams(f) = {}
    BY <1>3, DecimalsPlain
  <2>2. SerOf(f, format) = path /\ DeOf(f, format) = IF Custom(f) THEN custom.path ELSE path
    BY <1>1a, <1>3 DEF SerOf, DeOf
  <2>3. \E rest \in {{}, Default} : CodecParams(f, format) = WithParams(f, path) \cup rest
    BY <1>3 DEF CodecParams
  <2> HIDE DEF path
  <2>4. WithParams(f, path) = (IF Custom(f) THEN {custom, ser} ELSE {both}) /\ \A p \in Default : p.key = "default"
    BY DEF WithParams, Default, Param, custom
  <2>5. both.key = "with" /\ both.path = path /\ ser.key = "serialize_with" /\ ser.path = path
    BY DEF Param
  <2> HIDE DEF both, ser
  <2>6. CASE Custom(f)
    <3>1. Named(S, "serialize_with") = {ser} /\ Named(S, "deserialize_with") = {custom}
      BY <1>1a, <2>1, <2>3, <2>4, <2>5, <2>6 DEF Named
    <3>2. PathOf(params, "serialize_with") = ser.path /\ Cardinality(Named(params, "serialize_with")) <= 1
      BY <1>1, <3>1, PathOfOne
    <3>3. PathOf(params, "deserialize_with") = custom.path /\ Cardinality(Named(params, "deserialize_with")) <= 1
      BY <1>1, <3>1, PathOfOne
    <3>4. QED
      BY <2>2, <2>5, <2>6, <3>2, <3>3
  <2>7. CASE ~Custom(f)
    <3>1. Named(S, "serialize_with") = {both} /\ Named(S, "deserialize_with") = {both}
      BY <2>1, <2>3, <2>4, <2>5, <2>7 DEF Named
    <3>2. PathOf(params, "serialize_with") = both.path /\ Cardinality(Named(params, "serialize_with")) <= 1
      BY <1>1, <3>1, PathOfOne
    <3>3. PathOf(params, "deserialize_with") = both.path /\ Cardinality(Named(params, "deserialize_with")) <= 1
      BY <1>1, <3>1, PathOfOne
    <3>4. QED
      BY <2>2, <2>5, <2>7, <3>2, <3>3
  <2>8. QED
    BY <2>6, <2>7
<1>4. CASE ~HasHelper(leaf) /\ ~IsWrappedList(f, format) /\ DecimalParams(f) # {}
  <2> DEFINE p == Param("with", <<"float">> \o IF Outer(f.type) = "option" THEN <<"option">> ELSE <<>>)
  <2>1. ~Custom(f) /\ ~f.emptyAsNull
    BY <1>4, DecimalsPlain
  <2>2. DecimalParams(f) = {p} /\ CodecParams(f, format) = {}
    BY <1>4, <2>1 DEF DecimalParams, CodecParams
  <2>3. SerOf(f, format) = p.path /\ DeOf(f, format) = p.path
    BY <1>4, <2>1 DEF SerOf, DeOf, Param
  <2>4. p.key = "with"
    BY DEF Param
  <2> HIDE DEF p
  <2>5. Named(S, "serialize_with") = {p} /\ Named(S, "deserialize_with") = {p}
    BY <2>2, <2>4 DEF Named
  <2>6. PathOf(params, "serialize_with") = p.path /\ Cardinality(Named(params, "serialize_with")) <= 1
    BY <1>1, <2>5, PathOfOne
  <2>7. PathOf(params, "deserialize_with") = p.path /\ Cardinality(Named(params, "deserialize_with")) <= 1
    BY <1>1, <2>5, PathOfOne
  <2>8. QED
    BY <2>3, <2>6, <2>7
<1>5. CASE ~HasHelper(leaf) /\ ~IsWrappedList(f, format) /\ DecimalParams(f) = {}
  <2>1. SerOf(f, format) = <<"derive">>
    BY <1>5 DEF SerOf
  <2>2. CASE Custom(f)
    <3>1. CodecParams(f, format) = {custom} /\ DeOf(f, format) = custom.path
      BY <1>1a, <1>5, <2>2 DEF CodecParams, CustomParams, DeOf, custom
    <3>2. Named(S, "serialize_with") = {} /\ Named(S, "deserialize_with") = {custom}
      BY <1>1a, <1>5, <3>1 DEF Named
    <3>3. PathOf(params, "serialize_with") = <<"derive">> /\ Cardinality(Named(params, "serialize_with")) <= 1
      BY <1>1, <3>2, PathOfNone
    <3>4. PathOf(params, "deserialize_with") = custom.path /\ Cardinality(Named(params, "deserialize_with")) <= 1
      BY <1>1, <3>2, PathOfOne
    <3>5. QED
      BY <2>1, <3>1, <3>3, <3>4
  <2>3. CASE ~Custom(f) /\ f.emptyAsNull
    <3> DEFINE p == Param("deserialize_with", <<"empty_as_null">>)
    <3>1. CodecParams(f, format) = {p} /\ DeOf(f, format) = p.path
      BY <1>5, <2>3 DEF CodecParams, DeOf, Param
    <3>2. Named(S, "serialize_with") = {} /\ Named(S, "deserialize_with") = {p}
      BY <1>5, <3>1 DEF Named, Param
    <3> HIDE DEF p
    <3>3. PathOf(params, "serialize_with") = <<"derive">> /\ Cardinality(Named(params, "serialize_with")) <= 1
      BY <1>1, <3>2, PathOfNone
    <3>4. PathOf(params, "deserialize_with") = p.path /\ Cardinality(Named(params, "deserialize_with")) <= 1
      BY <1>1, <3>2, PathOfOne
    <3>5. QED
      BY <2>1, <3>1, <3>3, <3>4
  <2>4. CASE ~Custom(f) /\ ~f.emptyAsNull
    <3>1. CodecParams(f, format) = {} /\ DeOf(f, format) = <<"derive">>
      BY <1>5, <2>1, <2>4 DEF CodecParams, DeOf
    <3>2. Named(S, "serialize_with") = {} /\ Named(S, "deserialize_with") = {}
      BY <1>5, <3>1 DEF Named
    <3>3. QED
      BY <1>1, <2>1, <3>1, <3>2, PathOfNone
  <2>5. QED
    BY <2>2, <2>3, <2>4
<1>6. QED
  BY <1>2, <1>3, <1>4, <1>5

\* The helpers that a field names, in each of the modules.
LEMMA NamesInModules ==
    ASSUME NEW c, NEW f \in FieldTypes(c), NEW format, NEW visible, ~LiteralInCollection(f)
    PROVE  LET params == SerdeParams(f, format, visible)
           IN /\ NamedIn(params, "models_serde") = IF InModelsSerde(f, format) /\ HasHelper(UnwrapType(f.type)) THEN {HelperName(f)} ELSE {}
              /\ NamedIn(params, "xml_helpers") = IF ~HasHelper(UnwrapType(f.type)) /\ IsWrappedList(f, format) THEN {WrapperName(f)} ELSE {}
<1> DEFINE leaf == UnwrapType(f.type)
           S    == CodecsOf(f, format)
           In(module) == {Tail(p.path) : p \in {q \in S : q.path[1] = module}}
           xml  == <<"xml_helpers">> \o WrapperName(f)
           Right == /\ In("models_serde") = IF InModelsSerde(f, format) /\ HasHelper(leaf) THEN {HelperName(f)} ELSE {}
                    /\ In("xml_helpers") = IF ~HasHelper(leaf) /\ IsWrappedList(f, format) THEN {WrapperName(f)} ELSE {}
<1>1. \A module : NamedIn(SerdeParams(f, format, visible), module) = In(module)
  BY OnlyCodecs DEF NamedIn
<1>1a. SUFFICES Right
  BY <1>1
<1>2. \A p \in DecimalParams(f) : p.path[1] = "float"
  BY DEF DecimalParams, Param
<1>3. xml[1] = "xml_helpers" /\ Tail(xml) = WrapperName(f)
  BY WrapperPathIs
<1> HIDE DEF xml
<1>4. CASE HasHelper(leaf)
  <2> DEFINE path == HelperPath(f, format)
  <2>1. /\ InModelsSerde(f, format) => path[1] = "models_serde" /\ Tail(path) = HelperName(f)
        /\ ~InModelsSerde(f, format) => path[1] \in {"as_string", "base64", "time"}
    BY <1>4, HelperPathIs
  <2>2. \A p \in S : p.path = path \/ p.path[1] \in {"custom", "float"}
    BY <1>2, <1>4 DEF CodecsOf, CodecParams, CustomParams, WithParams, Default, Param, Codecs
  <2>3. \E p \in S : p.path = path
    <3>1. Param("with", path) \in S \/ Param("serialize_with", path) \in S
      BY <1>4 DEF CodecsOf, CodecParams, WithParams, Param, Codecs
    <3>2. QED
      BY <3>1 DEF Param
  <2> HIDE DEF path, S
  <2>4. In("models_serde") = IF InModelsSerde(f, format) THEN {HelperName(f)} ELSE {}
    BY <2>1, <2>2, <2>3
  <2>5. In("xml_helpers") = {}
    BY <2>1, <2>2
  <2>6. QED
    BY <1>4, <2>4, <2>5
<1>5. CASE ~HasHelper(leaf) /\ IsWrappedList(f, format)
  <2>1. \A p \in S : p.path = xml \/ p.path[1] \in {"custom", "float"}
    BY <1>2, <1>5 DEF CodecsOf, CodecParams, CustomParams, WithParams, Default, Param, Codecs, xml
  <2>2. \E p \in S : p.path = xml
    <3>1. Param("with", xml) \in S \/ Param("serialize_with", xml) \in S
      BY <1>5 DEF CodecsOf, CodecParams, WithParams, Param, Codecs, xml
    <3>2. QED
      BY <3>1 DEF Param
  <2> HIDE DEF S
  <2>3. In("models_serde") = {} /\ In("xml_helpers") = {WrapperName(f)}
    BY <1>3, <2>1, <2>2
  <2>4. QED
    BY <1>5, <2>3
<1>6. CASE ~HasHelper(leaf) /\ ~IsWrappedList(f, format)
  <2>1. \A p \in S : p.path[1] \in {"custom", "float", "empty_as_null"}
    BY <1>2, <1>6 DEF CodecsOf, CodecParams, CustomParams, Param, Codecs
  <2> HIDE DEF S
  <2>2. In("models_serde") = {} /\ In("xml_helpers") = {}
    BY <2>1
  <2>3. QED
    BY <1>6, <2>2
<1>7. QED
  BY <1>4, <1>5, <1>6

----------------------------------------------------------------------------
(* The functions that are named are there, compile and fit. *)

\* What is in a piece, and for which caller it is made.
LEMMA PieceParts ==
    ASSUME NEW c, NEW t \in Types(c), Nested(t)
    PROVE  /\ Len(t.wraps) \in Nat \ {0} /\ DOMAIN Pieces(t) = 1..(Len(t.wraps) + 1)
           /\ \A i \in 1..Len(t.wraps) :
                 /\ Pieces(t)[i] = t.wraps[i]
                 /\ t.wraps[i] \in {"Vec", "hashmap"} \/ (i = 1 /\ t.wraps[i] = "option")
           /\ Pieces(t)[Len(t.wraps) + 1] = t.leaf.kind
<1> DEFINE n == Len(t.wraps)
           s == <<t.leaf.kind>>
           T == Wrappers \cup Kinds
<1>1. t.wraps \in Seq(Wrappers) /\ n \in Nat /\ DOMAIN t.wraps = 1..n /\ t.wraps # <<>> /\ t.leaf.kind \in Kinds
  BY TypeParts, LenProperties DEF Nested
<1>2. n # 0
  BY <1>1, EmptySeq
<1>3. t.wraps \in Seq(T) /\ s \in Seq(T) /\ Len(s) = 1 /\ s[1] = t.leaf.kind
  <2>1. Wrappers \subseteq T /\ t.leaf.kind \in T
    BY <1>1
  <2> HIDE DEF T
  <2>2. QED
    BY <1>1, <2>1
<1> HIDE DEF T, s
<1>4. /\ t.wraps \o s \in Seq(T) /\ Len(t.wraps \o s) = n + 1
      /\ \A i \in 1..(n + 1) : (t.wraps \o s)[i] = IF i <= n THEN t.wraps[i] ELSE s[i - n]
  <2>1. /\ t.wraps \o s \in Seq(T) /\ Len(t.wraps \o s) = Len(t.wraps) + Len(s)
        /\ \A i \in 1..(Len(t.wraps) + Len(s)) : (t.wraps \o s)[i] = IF i <= Len(t.wraps) THEN t.wraps[i] ELSE s[i - Len(t.wraps)]
    BY <1>3, ConcatProperties
  <2>2. QED
    BY <1>3, <2>1
<1>5. Pieces(t) = t.wraps \o s
  BY DEF Pieces, s
<1>6. DOMAIN Pieces(t) = 1..(n + 1)
  BY <1>4, <1>5, LenProperties
<1>7. \A i \in 1..n : Pieces(t)[i] = t.wraps[i]
  BY <1>1, <1>4, <1>5
<1>8. Pieces(t)[n + 1] = t.leaf.kind
  <2>1. n + 1 \in 1..(n + 1) /\ ~(n + 1 <= n) /\ (n + 1) - n = 1
    BY <1>1
  <2>2. QED
    BY <1>3, <1>4, <1>5, <2>1
<1>9. \A i \in 1..n : t.wraps[i] \in {"Vec", "hashmap"} \/ (i = 1 /\ t.wraps[i] = "option")
  BY <1>1 DEF Nested
<1>10. QED
  BY <1>1, <1>2, <1>6, <1>7, <1>8, <1>9

\* The body of a helper for such a collection compiles, in both directions.
LEMMA NestedCompiles ==
    ASSUME NEW c, NEW t \in Types(c), Nested(t), t.leaf.kind \in {"encodedBytes", "offsetDateTime"},
           ~(Direct(t) /\ t.leaf.kind = "encodedBytes")
    PROVE  SerializeCompiles(t) /\ DeserializeCompiles(t)
<1> DEFINE n == Len(t.wraps)
           Good(i) == /\ SerializeForm(Pieces(t)[i], t.leaf.enc, Caller(t, i)) \in Wanted(Caller(t, i))
                      /\ DeserializeForm(Pieces(t)[i], Caller(t, i)) \in Wanted(Caller(t, i))
<1>1. n \in Nat \ {0} /\ DOMAIN Pieces(t) = 1..(n + 1) /\ Pieces(t)[n + 1] = t.leaf.kind
      /\ \A i \in 1..n : Pieces(t)[i] = t.wraps[i] /\ (t.wraps[i] \in {"Vec", "hashmap"} \/ (i = 1 /\ t.wraps[i] = "option"))
  BY PieceParts
<1>2. ASSUME NEW i \in 1..(n + 1)
      PROVE  Good(i)
  <2>1. CASE i = 1
    <3>1. 1 \in 1..n
      BY <1>1
    <3>2. Pieces(t)[i] \in {"Vec", "hashmap", "option"}
      BY <1>1, <2>1, <3>1
    <3>3. Caller(t, i) = "start"
      BY <2>1 DEF Caller
    <3> DEFINE piece == Pieces(t)[i]
               enc == t.leaf.enc
    <3>4. piece \in {"Vec", "hashmap", "option"}
      BY <3>2
    <3> HIDE DEF piece, enc
    <3>5. SerializeForm(piece, enc, "start") \in {"let", "returns"} /\ DeserializeForm(piece, "start") \in {"let", "returns"}
      BY <3>4 DEF SerializeForm, DeserializeForm
    <3>6. Wanted("start") = {"let", "returns"}
      BY DEF Wanted
    <3>7. QED
      BY <3>3, <3>5, <3>6 DEF piece, enc
  <2>2. CASE i # 1
    <3> DEFINE caller == t.wraps[i - 1]
               piece == Pieces(t)[i]
               enc == t.leaf.enc
               kind == t.leaf.kind
    <3>1. i - 1 \in 1..n /\ Caller(t, i) = caller
      BY <1>1, <2>2 DEF Caller
    <3>2. caller \in {"Vec", "hashmap"} \/ (i - 1 = 1 /\ caller = "option")
      BY <1>1, <3>1
    <3>3. piece \in {"Vec", "hashmap"} \/ (i = n + 1 /\ piece = kind)
      <4>1. CASE i = n + 1
        BY <1>1, <4>1
      <4>2. CASE i # n + 1
        <5>1. i \in 1..n
          BY <1>1, <4>2
        <5>2. QED
          BY <1>1, <2>2, <5>1
      <4>3. QED
        BY <4>1, <4>2
    <3>4. kind \in {"encodedBytes", "offsetDateTime"}
      OBVIOUS
    <3>5. i = n + 1 /\ caller = "Vec" => ~(kind = "offsetDateTime" /\ enc = "rfc3339-fixed-width")
      <4>1. i = n + 1 => i - 1 = Len(t.wraps)
        BY <1>1
      <4>2. QED
        BY <4>1 DEF Nested, Last
    <3>6. i = n + 1 /\ caller = "option" => kind = "offsetDateTime"
      <4>1. ASSUME i = n + 1, caller = "option"
            PROVE  Direct(t)
        <5>1. n = 1 /\ t.wraps[1] = "option"
          BY <1>1, <3>2, <4>1
        <5>2. t.wraps \in Seq(Wrappers) /\ "option" \in Wrappers
          BY TypeParts DEF Wrappers
        <5>3. <<"option">> \in Seq(Wrappers) /\ Len(<<"option">>) = 1 /\ <<"option">>[1] = "option"
          BY <5>2
        <5>4. \A k \in 1..Len(t.wraps) : t.wraps[k] = <<"option">>[k]
          BY <5>1, <5>3
        <5>5. t.wraps = <<"option">>
          BY <5>1, <5>2, <5>3, <5>4, SeqEqual
        <5>6. QED
          BY <5>5 DEF Direct
      <4>2. QED
        BY <3>4, <4>1
    <3> HIDE DEF caller, piece, enc, kind
    <3>7. \/ caller = "hashmap" /\ (piece \in {"Vec", "hashmap"} \/ piece = kind)
          \/ caller = "Vec" /\ (piece \in {"Vec", "hashmap"} \/ (piece = kind /\ ~(kind = "offsetDateTime" /\ enc = "rfc3339-fixed-width")))
          \/ caller = "option" /\ piece \in {"Vec", "hashmap", "offsetDateTime"}
      BY <3>2, <3>3, <3>5, <3>6
    <3>8. SerializeForm(piece, enc, caller) \in Wanted(caller)
      BY <3>4, <3>7 DEF SerializeForm, Wanted
    <3>9. DeserializeForm(piece, caller) \in Wanted(caller)
      BY <3>4, <3>7 DEF DeserializeForm, Wanted
    <3>10. QED
      BY <3>1, <3>8, <3>9 DEF piece, enc
  <2>3. QED
    BY <2>1, <2>2
<1>3. QED
  BY <1>1, <1>2 DEF SerializeCompiles, DeserializeCompiles

\* Only a number with a sign or an exponent has a helper without a legal name.
LEMMA LiteralsAreLegal ==
    ASSUME NEW f, NEW format, FieldSupported(f, format), UnwrapType(f.type) = f.type.leaf, IsLiteral(f.type.leaf)
    PROVE  LegalName(f.type.leaf)
<1> DEFINE leaf == f.type.leaf
<1>1. leaf.enc # "string" => OnlyPoints(leaf)
  BY DEF FieldSupported
<1>2. "_" \notin Marks /\ "point" \notin Marks
  BY MarksAssumption
<1> HIDE DEF leaf
<1>3. LegalName(leaf)
  BY <1>1, <1>2 DEF OnlyPoints, LegalName, Converted
<1>4. QED
  BY <1>3 DEF leaf

\* The field that a helper in models_serde was made for.
LEMMA HelperMade ==
    ASSUME NEW c, NEW f \in FieldTypes(c), NEW g \in FieldTypes(c), NEW format, NEW other,
           FieldSupported(g, other), Agree(g, f),
           ~LiteralInCollection(f), HasHelper(UnwrapType(f.type)), InModelsSerde(f, format),
           ~LiteralInCollection(g), HasHelper(UnwrapType(g.type)), InModelsSerde(g, other),
           HelperName(f) = HelperName(g)
    PROVE  /\ g.type.wraps = f.type.wraps /\ g.type.leaf.kind = f.type.leaf.kind
           /\ ~IsLiteral(g.type.leaf) => (Custom(g) = Custom(f)) /\ SerializeCompiles(g.type) /\ DeserializeCompiles(g.type)
<1>1. f.type \in Types(c) /\ g.type \in Types(c)
  BY DEF FieldTypes
<1>2. UnwrapType(g.type) = g.type.leaf /\ UnwrapType(f.type) = f.type.leaf
  BY HelperPathIs
<1>3. CASE Direct(g.type) /\ IsLiteral(g.type.leaf)
  <2>1. HelperName(g) = LiteralName(g)
    BY <1>3 DEF HelperName
  <2>2. Direct(f.type) /\ IsLiteral(f.type.leaf) /\ HelperName(f) = LiteralName(f)
    BY <1>1, <2>1, LiteralsNamedApart DEF HelperName
  <2>3. g.type.wraps = f.type.wraps
    BY <1>3, <2>1, <2>2 DEF Agree
  <2>4. QED
    BY <1>3, <2>2, <2>3 DEF IsLiteral
<1>4. CASE ~(Direct(g.type) /\ IsLiteral(g.type.leaf))
  <2>1. HelperName(g) = SerDeModName(g.type) /\ ~IsLiteral(g.type.leaf)
    BY <1>4 DEF HelperName, LiteralInCollection
  <2>2. HelperName(f) = SerDeModName(f.type)
    BY <1>1, <2>1, LiteralsNamedApart DEF HelperName
  <2>3. g.type.wraps = f.type.wraps /\ g.type.leaf.kind = f.type.leaf.kind
    BY <1>1, <2>1, <2>2, NameTells
  <2>4. g.type.leaf.kind \in {"encodedBytes", "offsetDateTime"}
    BY <2>1 DEF InModelsSerde, HasHelper, IsLiteral
  <2>5. Custom(g) = Custom(f)
    BY <2>1, <2>2, <2>4 DEF Agree
  <2>6. Nested(g.type) /\ ~(Direct(g.type) /\ g.type.leaf.kind = "encodedBytes")
    BY <1>2, <2>4 DEF FieldSupported, InModelsSerde
  <2>7. QED
    BY <1>1, <2>3, <2>4, <2>5, <2>6, NestedCompiles
<1>5. QED
  BY <1>3, <1>4

\* What a function is for, and where a helper is.
FitsAs(f, path, reads, helpers) ==
    LET simple  == f.type.wraps \in {<<>>, <<"option">>}
        options == IF f.type.wraps = <<>> THEN <<>> ELSE <<"option">>
    IN CASE path[1] = "as_string"        -> simple /\ f.type.leaf.kind = "int"
         [] path[1] = "float"            -> simple /\ f.type.leaf.kind = "decimal" /\ Tail(path) = options
         [] path[1] \in {"base64", "time"} -> simple /\ path[2] # "rfc3339-fixed-width" /\ Tail(Tail(path)) = options
         [] path[1] = "empty_as_null"    -> Outer(f.type) = "option"
         [] path[1] \in {"models_serde", "xml_helpers"} ->
              /\ Tail(path) \in DOMAIN helpers /\ (IsLiteral(f.type.leaf) => LegalName(f.type.leaf))
              /\ LET made == helpers[Tail(path)]
                 IN /\ made.type.wraps = f.type.wraps /\ made.type.leaf.kind = f.type.leaf.kind
                    /\ path[1] = "models_serde" /\ reads => ~Custom(made)
                    /\ path[1] = "models_serde" /\ ~IsLiteral(made.type.leaf)
                         => SerializeCompiles(made.type) /\ (Custom(made) \/ DeserializeCompiles(made.type))
         [] OTHER -> TRUE

LEMMA FitsIs ==
    ASSUME NEW m, NEW f, NEW path, NEW reads
    PROVE  Fits(m, f, path, reads) <=> FitsAs(f, path, reads, IF path[1] = "xml_helpers" THEN Helpers(m).xml ELSE Helpers(m).serde)
  BY DEF Fits, FitsAs

LEMMA CoreOptions ==
    ASSUME NEW a, NEW b, NEW option \in {<<>>, <<"option">>}
    PROVE  (<<a, b>> \o option)[1] = a /\ (<<a, b>> \o option)[2] = b /\ Tail(Tail(<<a, b>> \o option)) = option
<1> DEFINE T == {a, b, "option"}
           s == <<a, b>>
           u == s \o option
<1>1. s \in Seq(T) /\ Len(s) = 2 /\ s[1] = a /\ s[2] = b /\ s[2] \in T /\ "option" \in T
  OBVIOUS
<1>2. <<>> \in Seq(T) /\ Len(<<>>) = 0 /\ <<"option">> \in Seq(T) /\ Len(<<"option">>) = 1 /\ <<"option">>[1] = "option"
  BY <1>1
<1>3. option \in Seq(T)
  BY <1>2
<1> HIDE DEF T, s
<1>4. /\ u \in Seq(T) /\ Len(u) = 2 + Len(option)
      /\ \A i \in 1..(2 + Len(option)) : u[i] = IF i <= 2 THEN s[i] ELSE option[i - 2]
  <2>1. /\ u \in Seq(T) /\ Len(u) = Len(s) + Len(option)
        /\ \A i \in 1..(Len(s) + Len(option)) : u[i] = IF i <= Len(s) THEN s[i] ELSE option[i - Len(s)]
    BY <1>1, <1>3, ConcatProperties
  <2>2. QED
    BY <1>1, <2>1
<1> HIDE DEF u
<1>5. CASE option = <<>>
  <2>1. Len(u) = 2 /\ \A i \in 1..2 : u[i] = s[i]
    BY <1>2, <1>4, <1>5
  <2>2. u = s
    BY <1>1, <1>4, <2>1, SeqEqual
  <2>3. Tail(Tail(<<a, b>>)) = <<>>
    OBVIOUS
  <2>4. QED
    BY <1>1, <1>5, <2>2, <2>3 DEF s, u
<1>6. CASE option = <<"option">>
  <2> DEFINE v == <<a, b, "option">>
  <2>1. v \in Seq(T) /\ Len(v) = 3 /\ v[1] = a /\ v[2] = b /\ v[3] = "option"
    BY DEF T
  <2>2. Tail(Tail(v)) = <<"option">>
    OBVIOUS
  <2> HIDE DEF v
  <2>0. Len(option) = 1 /\ option[1] = "option"
    BY <1>2, <1>6
  <2>3. Len(u) = 3
    BY <1>4, <2>0
  <2>4. u[1] = a /\ u[2] = b /\ u[3] = "option"
    <3>1. \A i \in 1..3 : u[i] = IF i <= 2 THEN s[i] ELSE option[i - 2]
      BY <1>4, <2>0
    <3>2. 1 <= 2 /\ 2 <= 2 /\ ~(3 <= 2) /\ 3 - 2 = 1 /\ 1 \in 1..3 /\ 2 \in 1..3 /\ 3 \in 1..3
      OBVIOUS
    <3>3. QED
      BY <1>1, <2>0, <3>1, <3>2
  <2>5. \A i \in 1..3 : u[i] = v[i]
    <3>1. \A i \in 1..3 : i = 1 \/ i = 2 \/ i = 3
      OBVIOUS
    <3>2. QED
      BY <2>1, <2>4, <3>1
  <2>6. u = v
    BY <1>4, <2>1, <2>3, <2>5, SeqEqual
  <2>7. QED
    BY <1>6, <2>1, <2>2, <2>6 DEF s, u
<1>7. QED
  BY <1>5, <1>6

\* The functions of azure_core are for the leaf alone, or an Option of it.
LEMMA CoreFits ==
    ASSUME NEW c, NEW f \in FieldTypes(c), NEW format, NEW reads, NEW helpers, FieldSupported(f, format), ~LiteralInCollection(f),
           HasHelper(UnwrapType(f.type)), ~InModelsSerde(f, format)
    PROVE  FitsAs(f, HelperPath(f, format), reads, helpers)
<1> DEFINE leaf == f.type.leaf
           wraps == f.type.wraps
           path == HelperPath(f, format)
<1>1. UnwrapType(f.type) = leaf
  BY HelperPathIs
<1>2. CASE EncodeAsString(leaf)
  <2>1. path = <<"as_string">> /\ wraps \in {<<>>, <<"option">>} /\ leaf.kind = "int"
    BY <1>1, <1>2 DEF HelperPath, EncodeAsString, FieldSupported
  <2>2. path[1] = "as_string"
    BY <2>1
  <2>3. QED
    BY <2>1, <2>2 DEF FitsAs
<1>3. CASE ~EncodeAsString(leaf)
  <2>1. \E a \in {"base64", "time"} : path = <<a, leaf.enc>> \o OptionPath(f.type)
    BY <1>1, <1>3 DEF InModelsSerde, HelperPath, IsLiteral
  <2>2. wraps \in {<<>>, <<"option">>} /\ leaf.enc # "rfc3339-fixed-width"
    BY <1>1, <1>3 DEF InModelsSerde, FieldSupported, HasHelper
  <2>3. OptionPath(f.type) = IF wraps = <<>> THEN <<>> ELSE <<"option">>
    <3>1. ~Contains(<<>>, "option") /\ Contains(<<"option">>, "option")
      BY DEF Contains
    <3>2. QED
      BY <2>2, <3>1 DEF OptionPath
  <2>4. OptionPath(f.type) \in {<<>>, <<"option">>}
    BY <2>3
  <2>5. PICK a \in {"base64", "time"} : path = <<a, leaf.enc>> \o OptionPath(f.type)
    BY <2>1
  <2>6. path[1] = a /\ path[2] = leaf.enc /\ Tail(Tail(path)) = IF wraps = <<>> THEN <<>> ELSE <<"option">>
    <3> DEFINE enc == leaf.enc
               o == OptionPath(f.type)
    <3>1. o \in {<<>>, <<"option">>}
      BY <2>4
    <3> HIDE DEF enc, o
    <3>2. (<<a, enc>> \o o)[1] = a /\ (<<a, enc>> \o o)[2] = enc /\ Tail(Tail(<<a, enc>> \o o)) = o
      BY <3>1, CoreOptions
    <3>3. QED
      BY <2>3, <2>5, <3>2 DEF enc, o
  <2> HIDE DEF path
  <2>7. QED
    BY <2>2, <2>5, <2>6 DEF FitsAs, path
<1>4. QED
  BY <1>2, <1>3

\* What is written and read by a module whose helpers are complete.
LEMMA SupportedFits ==
    ASSUME NEW c, NEW f \in FieldTypes(c), NEW format, FieldSupported(f, format), ~LiteralInCollection(f), NEW serde, NEW xml,
           HasHelper(UnwrapType(f.type)) /\ InModelsSerde(f, format) =>
             /\ HelperName(f) \in DOMAIN serde
             /\ LET g == serde[HelperName(f)]
                IN /\ g.type.wraps = f.type.wraps /\ g.type.leaf.kind = f.type.leaf.kind
                   /\ ~IsLiteral(g.type.leaf) => (Custom(g) = Custom(f)) /\ SerializeCompiles(g.type) /\ DeserializeCompiles(g.type),
           ~HasHelper(UnwrapType(f.type)) /\ IsWrappedList(f, format) =>
             /\ WrapperName(f) \in DOMAIN xml
             /\ LET g == xml[WrapperName(f)] IN g.type.wraps = f.type.wraps /\ g.type.leaf.kind = f.type.leaf.kind
    PROVE  LET In(path) == IF path[1] = "xml_helpers" THEN xml ELSE serde
           IN /\ FitsAs(f, SerOf(f, format), FALSE, In(SerOf(f, format)))
              /\ FitsAs(f, DeOf(f, format), TRUE, In(DeOf(f, format)))
<1> DEFINE leaf == UnwrapType(f.type)
           In(path) == IF path[1] = "xml_helpers" THEN xml ELSE serde
           Fit(path, reads) == FitsAs(f, path, reads, In(path))
<1>0. SUFFICES Fit(SerOf(f, format), FALSE) /\ Fit(DeOf(f, format), TRUE)
  OBVIOUS
<1>1. \A reads : Fit(<<"derive">>, reads) /\ Fit(<<"custom">>, reads)
  BY DEF FitsAs
<1>2. f.emptyAsNull => \A reads : Fit(<<"empty_as_null">>, reads)
  BY DEF FitsAs, FieldSupported
<1>3. ASSUME HasHelper(leaf), ~InModelsSerde(f, format), NEW reads
      PROVE  Fit(HelperPath(f, format), reads)
  BY <1>3, CoreFits
<1>4. ASSUME HasHelper(leaf), InModelsSerde(f, format), NEW reads, reads => ~Custom(f) /\ ~(Direct(f.type) /\ IsLiteral(leaf))
      PROVE  Fit(HelperPath(f, format), reads)
  <2> DEFINE path == HelperPath(f, format)
             g == serde[HelperName(f)]
  <2>1. path[1] = "models_serde" /\ Tail(path) = HelperName(f) /\ leaf = f.type.leaf
    BY <1>4, HelperPathIs
  <2>2. HelperName(f) \in DOMAIN serde /\ g.type.wraps = f.type.wraps /\ g.type.leaf.kind = f.type.leaf.kind
        /\ (~IsLiteral(g.type.leaf) => (Custom(g) = Custom(f)) /\ SerializeCompiles(g.type) /\ DeserializeCompiles(g.type))
    BY <1>4
  <2>3. reads => ~IsLiteral(g.type.leaf)
    BY <1>4, <2>1, <2>2 DEF LiteralInCollection, IsLiteral
  <2>4. reads => ~Custom(g)
    BY <1>4, <2>2, <2>3
  <2>5. In(path) = serde
    BY <2>1
  <2>6. IsLiteral(f.type.leaf) => LegalName(f.type.leaf)
    BY <2>1, LiteralsAreLegal
  <2> HIDE DEF path, In
  <2>7. QED
    BY <2>1, <2>2, <2>4, <2>5, <2>6 DEF FitsAs, path
<1>5. ASSUME ~HasHelper(leaf), IsWrappedList(f, format), NEW reads
      PROVE  Fit(<<"xml_helpers">> \o WrapperName(f), reads)
  <2> DEFINE path == <<"xml_helpers">> \o WrapperName(f)
  <2>1. path[1] = "xml_helpers" /\ Tail(path) = WrapperName(f)
    BY WrapperPathIs
  <2>2. In(path) = xml
    BY <2>1
  <2>3. IsLiteral(f.type.leaf) => LegalName(f.type.leaf)
    <3>1. ASSUME IsLiteral(f.type.leaf)
          PROVE  ~Contains(f.type.wraps, "box")
      BY <3>1 DEF LiteralInCollection, Direct, Contains
    <3>2. QED
      BY <1>5, <3>1 DEF UnwrapType, HasHelper, IsLiteral
  <2> HIDE DEF path, In
  <2>4. QED
    BY <1>5, <2>1, <2>2, <2>3 DEF FitsAs, path
<1>6. ASSUME DecimalParams(f) # {}, NEW reads
      PROVE  Fit(<<"float">> \o (IF Outer(f.type) = "option" THEN <<"option">> ELSE <<>>), reads)
  <2> DEFINE option == IF Outer(f.type) = "option" THEN <<"option">> ELSE <<>>
             path == <<"float">> \o option
  <2>1. f.type.leaf.kind = "decimal" /\ f.type.wraps \in {<<>>, <<"option">>}
    BY <1>6, DecimalsPlain
  <2>2. option = IF f.type.wraps = <<>> THEN <<>> ELSE <<"option">>
    BY <2>1 DEF Outer
  <2>3. path[1] = "float" /\ Tail(path) = option
    <3>1. <<>> \in Seq({"option"}) /\ <<"option">> \in Seq({"option"})
      OBVIOUS
    <3>2. option \in Seq({"option"})
      BY <3>1
    <3> HIDE DEF option
    <3>3. QED
      BY <3>2, Prefixed
  <2> HIDE DEF path, option
  <2>4. QED
    BY <2>1, <2>2, <2>3 DEF FitsAs, path, option
<1> HIDE DEF Fit
<1>7. Fit(SerOf(f, format), FALSE)
  BY <1>1, <1>3, <1>4, <1>5, <1>6 DEF SerOf
<1>8. Fit(DeOf(f, format), TRUE)
  <2>1. CASE Custom(f)
    BY <1>1, <2>1 DEF DeOf
  <2>2. CASE ~Custom(f) /\ HasHelper(leaf) /\ Direct(f.type) /\ IsLiteral(leaf)
    BY <1>1, <2>2 DEF DeOf
  <2>3. CASE ~Custom(f) /\ HasHelper(leaf) /\ ~(Direct(f.type) /\ IsLiteral(leaf))
    <3>1. DeOf(f, format) = HelperPath(f, format)
      BY <2>3 DEF DeOf, SerOf
    <3>2. QED
      BY <1>3, <1>4, <2>3, <3>1
  <2>4. CASE ~Custom(f) /\ ~HasHelper(leaf) /\ (IsWrappedList(f, format) \/ ~f.emptyAsNull)
    <3>1. DeOf(f, format) = SerOf(f, format)
      BY <2>4 DEF DeOf
    <3>2. QED
      BY <1>1, <1>5, <1>6, <2>4, <3>1 DEF SerOf
  <2>5. CASE ~Custom(f) /\ ~HasHelper(leaf) /\ ~IsWrappedList(f, format) /\ f.emptyAsNull
    BY <1>2, <2>5 DEF DeOf
  <2>6. QED
    BY <2>1, <2>2, <2>3, <2>4, <2>5
<1>9. QED
  BY <1>7, <1>8

LEMMA PairParts ==
    ASSUME TypeInv, NEW x \in AllPairs(crate)
    PROVE  /\ x = <<x[1], x[2]>> /\ x[1] \in DOMAIN crate.models
           /\ x[2] \in EmittedFields(crate.models[x[1]]) /\ x[2] \in Elements(ModelFields(crate.models[x[1]]))
           /\ x[2] \in FieldTypes(crate)
<1>1. PICK m \in DOMAIN crate.models : \E f \in EmittedFields(crate.models[m]) : x = <<m, f>>
  BY DEF AllPairs
<1>2. PICK f \in EmittedFields(crate.models[m]) : x = <<m, f>>
  BY <1>1
<1>3. f \in Elements(ModelFields(crate.models[m]))
  BY DEF EmittedFields
<1>4. Elements(Fields(m)) \subseteq FieldTypes(crate)
  BY FieldsTyped, ElementsOfSeq
<1>5. QED
  BY <1>1, <1>2, <1>3, <1>4 DEF Fields, Model

\* When the models are emitted: what the inductive invariant says of a field.
Ready == SerdeInv /\ pc \in {"ready", "answered"} /\ ReachedPlainly(crate) /\ HelpersSupported(crate)

LEMMA ReadyField ==
    ASSUME Ready, NEW x \in AllPairs(crate)
    PROVE  /\ FieldSupported(x[2], AskedFormatOf(crate, x[1]))
           /\ BodyFormat(x[1]) = AskedFormatOf(crate, x[1])
           /\ ParamsAt[x] = SerdeParams(x[2], AskedFormatOf(crate, x[1]), Model(x[1]).visible)
           /\ AttrAt[x] = IF HasXmlAddlProps(x[1]) THEN {} ELSE ParamsAt[x]
           /\ HasXmlAddlProps(x[1]) => \A module \in {"models_serde", "xml_helpers"} : NamedIn(ParamsAt[x], module) = {}
<1> DEFINE m == x[1]
           f == x[2]
<1>0. SerdeInv /\ FormatsInv /\ TypeInv /\ pc \in {"ready", "answered"} /\ ReachedPlainly(crate) /\ HelpersSupported(crate)
  BY DEF Ready, SerdeInv, FormatsInv
<1>1. m \in DOMAIN crate.models /\ f \in EmittedFields(crate.models[m])
  BY <1>0, PairParts
<1>2. BodyFormat(m) = AskedFormatOf(crate, m)
  BY <1>0, <1>1, FormatsAsAsked DEF AskedFormat
<1>3. FieldSupported(f, AskedFormatOf(crate, m))
      /\ (crate.models[m].additional /\ AskedFormatOf(crate, m) = "xml"
            => \A module \in {"models_serde", "xml_helpers"} : NamedIn(SerdeParams(f, "xml", crate.models[m].visible), module) = {})
  BY <1>0, <1>1 DEF HelpersSupported
<1>4. ParamsAt[x] = SerdeParams(f, BodyFormat(m), Model(m).visible) /\ AttrAt[x] = IF HasXmlAddlProps(m) THEN {} ELSE ParamsAt[x]
  BY DEF ParamsAt, AttrAt
<1>5. HasXmlAddlProps(m) => \A module \in {"models_serde", "xml_helpers"} : NamedIn(ParamsAt[x], module) = {}
  BY <1>2, <1>3, <1>4 DEF HasXmlAddlProps, Model
<1>6. QED
  BY <1>2, <1>3, <1>4, <1>5

\* The attribute of a field is what was put there for it.
LEMMA ReadyParams ==
    ASSUME Ready, NEW i \in 1..Len(crate.modules)
    PROVE  /\ i \in 1..Len(emitted) /\ Pairs(crate, i) \subseteq AllPairs(crate)
           /\ \A x \in Pairs(crate, i) :
                 /\ Params(x[1], x[2]) = AttrAt[x] /\ ~LiteralInCollection(x[2])
                 /\ NamedIn(ParamsAt[x], "models_serde") \subseteq DOMAIN emitted[i].serde
                 /\ NamedIn(ParamsAt[x], "xml_helpers") \subseteq DOMAIN emitted[i].xml
           /\ AllMadeBy(Pairs(crate, i), ParamsAt, emitted[i].serde, emitted[i].xml)
<1>0. TypeInv /\ EmissionInv /\ pc \in {"ready", "answered"} /\ HelpersSupported(crate)
  BY DEF Ready, SerdeInv, FormatsInv
<1>1. ModulesEmitted /\ AttrsRight /\ CompleteRight /\ modules = <<>>
  BY <1>0 DEF EmissionInv
<1>2. i \in 1..Len(emitted) /\ Pairs(crate, i) \subseteq AllPairs(crate)
  <2>1. Len(modules) = 0 /\ Len(emitted) \in Nat /\ Len(crate.modules) \in Nat
    BY <1>0, <1>1, ModulesTyped
  <2>2. Len(emitted) = Len(crate.modules)
    BY <1>1, <2>1 DEF ModulesEmitted
  <2>3. QED
    BY <1>0, <2>2, ModulesTyped
<1>3. /\ Settled(Pairs(crate, i), ParamsAt, DOMAIN attrs, emitted[i].serde, emitted[i].xml)
      /\ AllMadeBy(Pairs(crate, i), ParamsAt, emitted[i].serde, emitted[i].xml)
  BY <1>1, <1>2 DEF CompleteRight
<1>4. ASSUME NEW x \in Pairs(crate, i)
      PROVE  Params(x[1], x[2]) = AttrAt[x]
  <2>1. <<x[1], x[2].name>> \in DOMAIN attrs
    BY <1>3 DEF Settled
  <2>2. PICK y \in AllPairs(crate) : <<x[1], x[2].name>> = <<y[1], y[2].name>> /\ attrs[<<x[1], x[2].name>>] = AttrAt[y]
    BY <1>1, <2>1 DEF AttrsRight
  <2>3. y[1] = x[1] /\ y[2].name = x[2].name
    BY <2>2
  <2>4. x = <<x[1], x[2]>> /\ x[1] \in DOMAIN crate.models /\ x[2] \in Elements(ModelFields(crate.models[x[1]]))
    BY <1>0, <1>2, PairParts
  <2>5. y = <<y[1], y[2]>> /\ y[2] \in Elements(ModelFields(crate.models[y[1]]))
    BY <1>0, PairParts
  <2>6. y[2] = x[2]
    BY <1>0, <2>3, <2>4, <2>5 DEF HelpersSupported
  <2>7. QED
    BY <2>2, <2>3, <2>4, <2>5, <2>6 DEF Params
<1>5. QED
  BY <1>2, <1>3, <1>4 DEF Settled

\* The module of a model is one that holds it.
LEMMA ReadyModule ==
    ASSUME Ready, NEW m \in DOMAIN crate.models, EmittedFields(crate.models[m]) # {}
    PROVE  /\ ModuleOf(m) \in 1..Len(crate.modules)
           /\ \A f \in EmittedFields(crate.models[m]) : <<m, f>> \in Pairs(crate, ModuleOf(m))
<1>0. TypeInv /\ HelpersSupported(crate)
  BY DEF Ready, SerdeInv, FormatsInv
<1>1. DOMAIN crate.modules = 1..Len(crate.modules) /\ \A i \in 1..Len(crate.modules) : crate.modules[i] \in Seq(DOMAIN crate.models)
  BY <1>0, ModulesTyped, ElementOfSeq
<1>2. \A i \in 1..Len(crate.modules) : Contains(crate.modules[i], m) <=> m \in Elements(crate.modules[i])
  <2>1. \A s \in Seq(DOMAIN crate.models) : Contains(s, m) <=> m \in Elements(s)
    BY LenProperties DEF Contains, Elements
  <2>2. QED
    BY <1>1, <2>1
<1>3. \E i \in DOMAIN crate.modules : Contains(crate.modules[i], m)
  BY <1>0, <1>1, <1>2 DEF HelpersSupported
<1>4. ModuleOf(m) \in DOMAIN crate.modules /\ Contains(crate.modules[ModuleOf(m)], m)
  BY <1>3 DEF ModuleOf
<1>5. m \in Elements(crate.modules[ModuleOf(m)])
  BY <1>1, <1>2, <1>4
<1>6. QED
  BY <1>1, <1>4, <1>5 DEF Pairs

\* The helpers of a module are for the fields that name them.
LEMMA ReadyHelpers ==
    ASSUME Ready, NEW i \in 1..Len(crate.modules), NEW x \in Pairs(crate, i)
    PROVE  LET f      == x[2]
               format == AskedFormatOf(crate, x[1])
           IN /\ HasHelper(UnwrapType(f.type)) /\ InModelsSerde(f, format) =>
                   /\ HelperName(f) \in DOMAIN emitted[i].serde
                   /\ LET g == emitted[i].serde[HelperName(f)]
                      IN /\ g.type.wraps = f.type.wraps /\ g.type.leaf.kind = f.type.leaf.kind
                         /\ ~IsLiteral(g.type.leaf) => (Custom(g) = Custom(f)) /\ SerializeCompiles(g.type) /\ DeserializeCompiles(g.type)
              /\ ~HasHelper(UnwrapType(f.type)) /\ IsWrappedList(f, format) =>
                   /\ WrapperName(f) \in DOMAIN emitted[i].xml
                   /\ LET g == emitted[i].xml[WrapperName(f)] IN g.type.wraps = f.type.wraps /\ g.type.leaf.kind = f.type.leaf.kind
<1> DEFINE f == x[2]
           format(y) == AskedFormatOf(crate, y[1])
           serde == emitted[i].serde
           xml == emitted[i].xml
           g == serde[HelperName(f)]
           h == xml[WrapperName(f)]
<1>0. TypeInv /\ HelpersSupported(crate)
  BY DEF Ready, SerdeInv, FormatsInv
<1>1. i \in DOMAIN crate.modules /\ Pairs(crate, i) \subseteq AllPairs(crate)
  BY <1>0, ModulesTyped
<1>2. \A y \in Pairs(crate, i) :
         /\ y[2] \in FieldTypes(crate) /\ y[1] \in Elements(crate.modules[i]) /\ y[2] \in EmittedFields(crate.models[y[1]])
         /\ FieldSupported(y[2], format(y)) /\ ~LiteralInCollection(y[2])
         /\ ParamsAt[y] = SerdeParams(y[2], format(y), Model(y[1]).visible)
         /\ NamedIn(ParamsAt[y], "models_serde") \subseteq DOMAIN serde /\ NamedIn(ParamsAt[y], "xml_helpers") \subseteq DOMAIN xml
  <2>1. \A y \in Pairs(crate, i) : y[1] \in Elements(crate.modules[i])
    BY DEF Pairs
  <2>2. QED
    BY <1>0, <1>1, <2>1, PairParts, ReadyField, ReadyParams
<1>3. \A y \in Pairs(crate, i) :
         /\ NamedIn(ParamsAt[y], "models_serde")
              = IF InModelsSerde(y[2], format(y)) /\ HasHelper(UnwrapType(y[2].type)) THEN {HelperName(y[2])} ELSE {}
         /\ NamedIn(ParamsAt[y], "xml_helpers")
              = IF ~HasHelper(UnwrapType(y[2].type)) /\ IsWrappedList(y[2], format(y)) THEN {WrapperName(y[2])} ELSE {}
  <2>1. ASSUME NEW y \in Pairs(crate, i)
        PROVE  /\ NamedIn(ParamsAt[y], "models_serde")
                    = IF InModelsSerde(y[2], format(y)) /\ HasHelper(UnwrapType(y[2].type)) THEN {HelperName(y[2])} ELSE {}
               /\ NamedIn(ParamsAt[y], "xml_helpers")
                    = IF ~HasHelper(UnwrapType(y[2].type)) /\ IsWrappedList(y[2], format(y)) THEN {WrapperName(y[2])} ELSE {}
    <3> DEFINE k == y[2]
               other == format(y)
               visible == Model(y[1]).visible
    <3>1. k \in FieldTypes(crate) /\ ~LiteralInCollection(k) /\ ParamsAt[y] = SerdeParams(k, other, visible)
      BY <1>2
    <3> HIDE DEF k, other, visible
    <3>2. /\ NamedIn(SerdeParams(k, other, visible), "models_serde")
               = IF InModelsSerde(k, other) /\ HasHelper(UnwrapType(k.type)) THEN {HelperName(k)} ELSE {}
          /\ NamedIn(SerdeParams(k, other, visible), "xml_helpers")
               = IF ~HasHelper(UnwrapType(k.type)) /\ IsWrappedList(k, other) THEN {WrapperName(k)} ELSE {}
      BY <3>1, NamesInModules
    <3>3. QED
      BY <3>1, <3>2 DEF k, other
  <2>2. QED
    BY <2>1
<1>4. /\ \A n \in DOMAIN serde : \E y \in Pairs(crate, i) : n \in NamedIn(ParamsAt[y], "models_serde") /\ serde[n] = y[2]
      /\ \A n \in DOMAIN xml : \E y \in Pairs(crate, i) : n \in NamedIn(ParamsAt[y], "xml_helpers") /\ xml[n] = y[2]
  BY ReadyParams DEF AllMadeBy, MadeBy
<1> HIDE DEF serde, xml
<1>5. ASSUME HasHelper(UnwrapType(f.type)), InModelsSerde(f, format(x))
      PROVE  /\ HelperName(f) \in DOMAIN serde
             /\ g.type.wraps = f.type.wraps /\ g.type.leaf.kind = f.type.leaf.kind
             /\ ~IsLiteral(g.type.leaf) => (Custom(g) = Custom(f)) /\ SerializeCompiles(g.type) /\ DeserializeCompiles(g.type)
  <2>1. HelperName(f) \in DOMAIN serde
    BY <1>2, <1>3, <1>5
  <2>2. PICK y \in Pairs(crate, i) : HelperName(f) \in NamedIn(ParamsAt[y], "models_serde") /\ g = y[2]
    BY <1>4, <2>1
  <2>3. InModelsSerde(g, format(y)) /\ HasHelper(UnwrapType(g.type)) /\ HelperName(f) = HelperName(g)
    BY <1>3, <2>2
  <2>4. Agree(g, f)
    <3>1. f \in FieldsIn(crate, i) /\ g \in FieldsIn(crate, i)
      BY <1>2, <2>2 DEF FieldsIn
    <3>2. QED
      BY <1>0, <1>1, <3>1 DEF HelpersSupported
  <2>5. /\ f \in FieldTypes(crate) /\ g \in FieldTypes(crate) /\ FieldSupported(g, format(y))
        /\ ~LiteralInCollection(f) /\ ~LiteralInCollection(g)
    BY <1>2, <2>2
  <2> HIDE DEF f, g, format
  <2>6. QED
    BY <1>5, <2>1, <2>3, <2>4, <2>5, HelperMade
<1>6. ASSUME ~HasHelper(UnwrapType(f.type)), IsWrappedList(f, format(x))
      PROVE  WrapperName(f) \in DOMAIN xml /\ h.type.wraps = f.type.wraps /\ h.type.leaf.kind = f.type.leaf.kind
  <2>1. WrapperName(f) \in DOMAIN xml
    BY <1>2, <1>3, <1>6
  <2>2. PICK y \in Pairs(crate, i) : WrapperName(f) \in NamedIn(ParamsAt[y], "xml_helpers") /\ h = y[2]
    BY <1>4, <2>1
  <2>3. ~HasHelper(UnwrapType(h.type)) /\ IsWrappedList(h, format(y)) /\ WrapperName(f) = WrapperName(h)
    BY <1>3, <2>2
  <2>4. f \in ListsIn(crate, i) /\ h \in ListsIn(crate, i)
    BY <1>2, <1>6, <2>2, <2>3 DEF ListsIn
  <2>5. QED
    BY <1>0, <1>1, <2>1, <2>3, <2>4 DEF HelpersSupported
<1>7. QED
  BY <1>5, <1>6 DEF serde, xml

\* The functions of one field.
LEMMA FieldFits ==
    ASSUME Ready, NEW m \in DOMAIN crate.models, NEW f \in EmittedFields(crate.models[m])
    PROVE  /\ Fits(m, f, SerPath(m, f), FALSE) /\ Fits(m, f, DePath(m, f), TRUE)
           /\ \A key \in {"serialize_with", "deserialize_with"} : Cardinality(Named(Params(m, f), key)) <= 1
<1> DEFINE i == ModuleOf(m)
           x == <<m, f>>
           format == AskedFormatOf(crate, m)
           serde == emitted[i].serde
           xml == emitted[i].xml
           In(path) == IF path[1] = "xml_helpers" THEN xml ELSE serde
<1>1. i \in 1..Len(crate.modules) /\ x \in Pairs(crate, i) /\ Helpers(m) = emitted[i]
  BY ReadyModule DEF Helpers
<1>2. x \in AllPairs(crate) /\ Params(m, f) = AttrAt[x] /\ ~LiteralInCollection(f)
  <2>1. x[1] = m /\ x[2] = f
    OBVIOUS
  <2> HIDE DEF x, i
  <2>2. QED
    BY <1>1, <2>1, ReadyParams
<1>3. FieldSupported(f, format) /\ AttrAt[x] = IF HasXmlAddlProps(m) THEN {} ELSE SerdeParams(f, format, Model(m).visible)
  BY <1>2, ReadyField
<1>4. CASE HasXmlAddlProps(m)
  <2>1. \A key : Named(Params(m, f), key) = {}
    BY <1>2, <1>3, <1>4 DEF Named
  <2>2. SerPath(m, f) = <<"derive">> /\ DePath(m, f) = <<"derive">>
        /\ \A key \in {"serialize_with", "deserialize_with"} : Cardinality(Named(Params(m, f), key)) <= 1
    BY <2>1, PathOfNone DEF SerPath, DePath
  <2>3. \A reads : Fits(m, f, <<"derive">>, reads)
    BY DEF Fits
  <2>4. QED
    BY <2>2, <2>3
<1>5. CASE ~HasXmlAddlProps(m)
  <2>1. f \in FieldTypes(crate)
    BY <1>2, PairParts DEF Ready, SerdeInv, FormatsInv
  <2>2. Params(m, f) = SerdeParams(f, format, Model(m).visible)
    BY <1>2, <1>3, <1>5
  <2>3. SerPath(m, f) = SerOf(f, format) /\ DePath(m, f) = DeOf(f, format)
        /\ \A key \in {"serialize_with", "deserialize_with"} : Cardinality(Named(Params(m, f), key)) <= 1
    BY <1>3, <2>1, <2>2, CodecPaths DEF SerPath, DePath
  <2>4. /\ HasHelper(UnwrapType(f.type)) /\ InModelsSerde(f, format) =>
             /\ HelperName(f) \in DOMAIN serde
             /\ LET g == serde[HelperName(f)]
                IN /\ g.type.wraps = f.type.wraps /\ g.type.leaf.kind = f.type.leaf.kind
                   /\ ~IsLiteral(g.type.leaf) => (Custom(g) = Custom(f)) /\ SerializeCompiles(g.type) /\ DeserializeCompiles(g.type)
        /\ ~HasHelper(UnwrapType(f.type)) /\ IsWrappedList(f, format) =>
             /\ WrapperName(f) \in DOMAIN xml
             /\ LET g == xml[WrapperName(f)] IN g.type.wraps = f.type.wraps /\ g.type.leaf.kind = f.type.leaf.kind
    <3>1. x[1] = m /\ x[2] = f
      OBVIOUS
    <3> HIDE DEF x, i
    <3>2. QED
      BY <1>1, <3>1, ReadyHelpers
  <2> HIDE DEF serde, xml, format
  <2>5. FitsAs(f, SerOf(f, format), FALSE, In(SerOf(f, format))) /\ FitsAs(f, DeOf(f, format), TRUE, In(DeOf(f, format)))
    BY <1>2, <1>3, <2>1, <2>4, SupportedFits
  <2>6. \A path, reads : Fits(m, f, path, reads) <=> FitsAs(f, path, reads, In(path))
    BY <1>1, FitsIs DEF serde, xml
  <2> HIDE DEF In
  <2>7. QED
    BY <2>3, <2>5, <2>6
<1>6. QED
  BY <1>4, <1>5

\* A module holds the helpers that its models use, and no others.
LEMMA HelpersUsed ==
    ASSUME Ready, NEW i \in 1..Len(crate.modules)
    PROVE  LET used == UNION {UNION {Params(m, f) : f \in Emitted(m)} : m \in Elements(crate.modules[i])}
           IN /\ DOMAIN emitted[i].serde = NamedIn(used, "models_serde")
              /\ DOMAIN emitted[i].xml = NamedIn(used, "xml_helpers")
<1> DEFINE used == UNION {UNION {Params(m, f) : f \in Emitted(m)} : m \in Elements(crate.modules[i])}
           S == Pairs(crate, i)
           serde == emitted[i].serde
           xml == emitted[i].xml
<1>1. S \subseteq AllPairs(crate) /\ \A x \in S : Params(x[1], x[2]) = AttrAt[x]
  BY ReadyParams
<1>2. \A x \in S : x[1] \in Elements(crate.modules[i]) /\ x[2] \in Emitted(x[1])
  BY DEF Pairs, Emitted, Model
<1>3. \A m \in Elements(crate.modules[i]) : \A f \in Emitted(m) : <<m, f>> \in S
  BY DEF Pairs, Emitted, Model
<1>4. used = UNION {AttrAt[x] : x \in S}
  <2>1. ASSUME NEW p \in used
        PROVE  \E x \in S : p \in AttrAt[x]
    <3>1. PICK m \in Elements(crate.modules[i]) : \E f \in Emitted(m) : p \in Params(m, f)
      OBVIOUS
    <3>2. PICK f \in Emitted(m) : p \in Params(m, f)
      BY <3>1
    <3> DEFINE x == <<m, f>>
    <3>3. x \in S /\ x[1] = m /\ x[2] = f
      BY <1>3
    <3> HIDE DEF x, S, used
    <3>4. QED
      BY <1>1, <3>2, <3>3
  <2>2. \A x \in S : \A p \in AttrAt[x] : p \in used
    BY <1>1, <1>2
  <2> HIDE DEF used, S
  <2>3. QED
    BY <2>1, <2>2
<1> HIDE DEF used
<1>5. ASSUME NEW module \in {"models_serde", "xml_helpers"}
      PROVE  NamedIn(used, module) = UNION {NamedIn(ParamsAt[x], module) : x \in S}
  <2>1. \A x \in S : NamedIn(AttrAt[x], module) = NamedIn(ParamsAt[x], module)
    <3>1. ASSUME NEW x \in S
          PROVE  NamedIn(AttrAt[x], module) = NamedIn(ParamsAt[x], module)
      <4>1. AttrAt[x] = (IF HasXmlAddlProps(x[1]) THEN {} ELSE ParamsAt[x]) /\ (HasXmlAddlProps(x[1]) => NamedIn(ParamsAt[x], module) = {})
        BY <1>1, ReadyField
      <4>2. NamedIn({}, module) = {}
        BY DEF NamedIn
      <4>3. QED
        BY <4>1, <4>2
    <3>2. QED
      BY <3>1
  <2>2. NamedIn(used, module) = UNION {NamedIn(AttrAt[x], module) : x \in S}
    BY <1>4 DEF NamedIn
  <2>3. QED
    BY <2>1, <2>2
<1>6. /\ \A x \in S : NamedIn(ParamsAt[x], "models_serde") \subseteq DOMAIN serde /\ NamedIn(ParamsAt[x], "xml_helpers") \subseteq DOMAIN xml
      /\ \A n \in DOMAIN serde : \E x \in S : n \in NamedIn(ParamsAt[x], "models_serde")
      /\ \A n \in DOMAIN xml : \E x \in S : n \in NamedIn(ParamsAt[x], "xml_helpers")
  BY ReadyParams DEF AllMadeBy, MadeBy
<1> HIDE DEF S, serde, xml
<1>7. DOMAIN serde = NamedIn(used, "models_serde") /\ DOMAIN xml = NamedIn(used, "xml_helpers")
  BY <1>5, <1>6
<1>8. QED
  BY <1>7 DEF used, serde, xml

----------------------------------------------------------------------------
(* The variants of enums. *)

LEMMA UpToFinite == ASSUME NEW n \in Nat PROVE IsFiniteSet(1..n)
<1>1. 1 \in Int /\ n \in Int
  OBVIOUS
<1>2. QED
  BY <1>1, FS_Interval

\* Places that are told apart by how many of a set are not after them.
LEMMA Placed ==
    ASSUME NEW n \in Nat, NEW S \in SUBSET (1..n), NEW i \in S, NEW j \in S,
           Cardinality({k \in S : k <= i}) = Cardinality({k \in S : k <= j})
    PROVE  i = j
<1> DEFINE Upto(x) == {k \in S : k <= x}
<1>1. IsFiniteSet(S)
  BY UpToFinite, FS_Subset
<1>2. \A x : IsFiniteSet(Upto(x))
  BY <1>1, FS_Subset
<1>3. ASSUME NEW a \in S, NEW b \in S, a < b, Cardinality(Upto(a)) = Cardinality(Upto(b))
      PROVE  FALSE
  <2>1. Upto(a) \subseteq Upto(b)
    <3>1. \A k \in S : k <= a => k <= b
      BY <1>3
    <3>2. QED
      BY <3>1
  <2>2. b \in Upto(b) /\ b \notin Upto(a)
    BY <1>3
  <2> HIDE DEF Upto
  <2>3. Upto(a) = Upto(b)
    BY <1>2, <1>3, <2>1, FS_Subset
  <2>4. QED
    BY <2>2, <2>3
<1>4. i < j \/ j < i \/ i = j
  OBVIOUS
<1>5. QED
  BY <1>3, <1>4

LEMMA OneOfOne ==
    ASSUME NEW S, IsFiniteSet(S), ~(Cardinality(S) > 1), NEW i \in S, NEW j \in S
    PROVE  i = j
<1>1. SUFFICES ASSUME i # j PROVE FALSE
  OBVIOUS
<1>2. Cardinality({i, j}) = 2
  <2>1. Cardinality({i}) = 1 /\ IsFiniteSet({i}) /\ j \notin {i}
    BY <1>1, FS_Singleton
  <2>2. Cardinality({i} \cup {j}) = Cardinality({i}) + 1
    BY <2>1, FS_AddElement
  <2>3. {i, j} = {i} \cup {j}
    OBVIOUS
  <2>4. QED
    BY <2>1, <2>2, <2>3
<1>3. Cardinality({i, j}) <= Cardinality(S) /\ Cardinality(S) \in Nat
  BY FS_Subset, FS_CardinalityType
<1>4. QED
  BY <1>2, <1>3

Bare(v) == [v EXCEPT !.wire = ""]

BareName(v) == Bare(v).name

BareId(v) == Bare(v).id

LEMMA BareIs ==
    ASSUME NEW name, NEW group, NEW number, NEW text
    PROVE  BareName(Variant(name, group, number, text)) = name /\ BareId(Variant(name, group, number, text)) = number
  BY DEF BareName, BareId, Bare, Variant

LEMMA BareAlike == ASSUME NEW u, NEW v, Bare(u) = Bare(v) PROVE BareName(u) = BareName(v) /\ BareId(u) = BareId(v)
  BY DEF BareName, BareId

\* The variants of an enum have names of their own.
LEMMA EnumsNamed ==
    ASSUME NEW e \in Enums
    PROVE  LET V == RustEnum(e).variants
               n == Len(e.values)
           IN /\ n \in Nat /\ DOMAIN e.values = 1..n /\ DOMAIN V = 1..n
              /\ \A i \in 1..n : BareName(V[i]) = FixUpEnumValueName(e.values[i])
              /\ \A u, v \in ToSet(V) : u # v => Bare(u) # Bare(v)
<1> DEFINE V == RustEnum(e).variants
           n == Len(e.values)
<1>1. n \in Nat /\ DOMAIN e.values = 1..n /\ \A i \in 1..n : e.values[i] \in ToSet(e.values)
  <2>1. e.values \in Seq([name : Seq(STRING), wire : STRING])
    BY DEF Enums
  <2>2. QED
    BY <2>1, LenProperties DEF ToSet
<1>2. DOMAIN V = 1..n
  BY <1>1 DEF RustEnum, GetEnum, GetMergedFlatEnum
<1>3. \A i, j \in 1..n : FixUpEnumValueName(e.values[i]) = FixUpEnumValueName(e.values[j]) => SameName(e, i) = SameName(e, j)
  BY DEF SameName
<1>4. \A i \in 1..n : i \in SameName(e, i) /\ SameName(e, i) \in SUBSET (1..n) /\ IsFiniteSet(SameName(e, i))
  <2>1. \A i \in 1..n : i \in SameName(e, i) /\ SameName(e, i) \in SUBSET (1..n)
    BY <1>1 DEF SameName
  <2>2. IsFiniteSet(1..n)
    BY <1>1, UpToFinite
  <2>3. QED
    BY <2>1, <2>2, FS_Subset
<1>5. \A i \in 1..n : BareName(V[i]) = FixUpEnumValueName(e.values[i])
  <2>1. \A i \in 1..n : \E group, id, w : V[i] = Variant(FixUpEnumValueName(e.values[i]), group, id, w)
    BY <1>1 DEF RustEnum, GetEnum, GetMergedFlatEnum
  <2> HIDE DEF V
  <2>2. \A x, group, id, w : BareName(Variant(x, group, id, w)) = x
    BY BareIs
  <2>3. ASSUME NEW i \in 1..n
        PROVE  BareName(V[i]) = FixUpEnumValueName(e.values[i])
    <3>1. PICK group, id, w : V[i] = Variant(FixUpEnumValueName(e.values[i]), group, id, w)
      BY <2>1
    <3>2. BareName(V[i]) = BareName(Variant(FixUpEnumValueName(e.values[i]), group, id, w))
      BY <3>1
    <3>3. QED
      BY <2>2, <3>2
  <2>4. QED
    BY <2>3
<1>6. ASSUME NEW i \in 1..n, NEW j \in 1..n, Bare(V[i]) = Bare(V[j])
      PROVE  V[i] = V[j]
  <2>0. BareName(V[i]) = BareName(V[j]) /\ BareId(V[i]) = BareId(V[j])
    BY <1>6, BareAlike
  <2>1. FixUpEnumValueName(e.values[i]) = FixUpEnumValueName(e.values[j])
    BY <1>5, <2>0
  <2>2. SameName(e, i) = SameName(e, j)
    BY <1>3, <2>1
  <2>3. CASE e.merged
    <3>1. \A k \in 1..n : V[k] = Variant(FixUpEnumValueName(e.values[k]), 0, 0, e.values[Min(SameName(e, k))].wire)
      BY <1>1, <2>3 DEF RustEnum, GetMergedFlatEnum
    <3>2. QED
      BY <2>1, <2>2, <3>1
  <2>4. CASE ~e.merged
    <3>1. \A k \in 1..n : V[k] = IF Collides(e, k)
                                 THEN Variant(FixUpEnumValueName(e.values[k]), GroupOf(e, Min(SameName(e, k))),
                                              Cardinality({l \in SameName(e, k) : l <= k}), e.values[k].wire)
                                 ELSE Variant(FixUpEnumValueName(e.values[k]), 0, 0, e.values[k].wire)
      BY <1>1, <2>4 DEF RustEnum, GetEnum
    <3>2. Collides(e, i) <=> Collides(e, j)
      BY <2>2 DEF Collides
    <3>3. i \in SameName(e, i) /\ j \in SameName(e, i) /\ SameName(e, i) \in SUBSET (1..n) /\ IsFiniteSet(SameName(e, i))
      BY <1>4, <2>2
    <3>4. CASE Collides(e, i)
      <4>1. BareId(V[i]) = Cardinality({l \in SameName(e, i) : l <= i}) /\ BareId(V[j]) = Cardinality({l \in SameName(e, j) : l <= j})
        <5>1. \A k \in 1..n : Collides(e, k) => BareId(V[k]) = Cardinality({l \in SameName(e, k) : l <= k})
          <6>0. \A x, y, z, text : BareId(Variant(x, y, z, text)) = z
            BY BareIs
          <6>1. ASSUME NEW k \in 1..n, Collides(e, k)
                PROVE  BareId(V[k]) = Cardinality({l \in SameName(e, k) : l <= k})
            <7> DEFINE shown == FixUpEnumValueName(e.values[k])
                       place == Cardinality({l \in SameName(e, k) : l <= k})
                       from  == GroupOf(e, Min(SameName(e, k)))
                       sent  == e.values[k].wire
            <7>1. V[k] = Variant(shown, from, place, sent)
              BY <3>1, <6>1
            <7> HIDE DEF V, shown, place, from, sent
            <7>2. BareId(Variant(shown, from, place, sent)) = place
              BY <6>0
            <7>3. BareId(V[k]) = BareId(Variant(shown, from, place, sent))
              BY <7>1
            <7>4. QED
              BY <7>2, <7>3 DEF place
          <6>2. QED
            BY <6>1
        <5>2. QED
          BY <3>2, <3>4, <5>1
      <4>2. Cardinality({l \in SameName(e, i) : l <= i}) = Cardinality({l \in SameName(e, i) : l <= j})
        BY <2>0, <2>2, <4>1
      <4>3. i = j
        BY <1>1, <3>3, <4>2, Placed
      <4>4. QED
        BY <4>3
    <3>5. CASE ~Collides(e, i)
      <4>1. i = j
        BY <3>3, <3>5, OneOfOne DEF Collides
      <4>2. QED
        BY <4>1
    <3>6. QED
      BY <3>4, <3>5
  <2>5. QED
    BY <2>3, <2>4
<1>7. \A u \in ToSet(V) : \E i \in 1..n : u = V[i]
  BY <1>2 DEF ToSet
<1>8. \A u, v \in ToSet(V) : u # v => Bare(u) # Bare(v)
  <2>1. ASSUME NEW u \in ToSet(V), NEW v \in ToSet(V), Bare(u) = Bare(v)
        PROVE  u = v
    <3>1. PICK i \in 1..n : u = V[i]
      BY <1>7
    <3>2. PICK j \in 1..n : v = V[j]
      BY <1>7
    <3>3. Bare(V[i]) = Bare(V[j])
      BY <2>1, <3>1, <3>2
    <3> HIDE DEF V
    <3>4. QED
      BY <1>6, <3>1, <3>2, <3>3
  <2>2. QED
    BY <2>1
<1>9. QED
  BY <1>1, <1>2, <1>5, <1>8

LEMMA EnumsCompile ==
    ASSUME NEW e \in Enums,
           \A v \in ToSet(e.values) : ~e.fixed /\ ~e.merged => FixUpEnumValueName(v) # UnknownValue("").name
    PROVE  EnumCompiles(RustEnum(e))
<1> DEFINE r == RustEnum(e)
           V == r.variants
           n == Len(e.values)
<1>1. /\ DOMAIN e.values = 1..n /\ DOMAIN V = 1..n
      /\ \A i \in 1..n : BareName(V[i]) = FixUpEnumValueName(e.values[i])
      /\ \A u, v \in ToSet(V) : u # v => Bare(u) # Bare(v)
  BY EnumsNamed
<1>2. ASSUME r.extensible, NEW v \in ToSet(V), Bare(v) = UnknownValue("")
      PROVE  FALSE
  <2>1. ~e.fixed /\ ~e.merged
    BY <1>2 DEF RustEnum, GetEnum, GetMergedFlatEnum, Enums
  <2>2. PICK i \in 1..n : v = V[i]
    BY <1>1 DEF ToSet
  <2>3. e.values[i] \in ToSet(e.values)
    BY <1>1 DEF ToSet
  <2>4. BareName(v) = UnknownValue("").name
    BY <1>2 DEF BareName
  <2>5. QED
    BY <1>1, <2>1, <2>2, <2>3, <2>4
<1>3. r.extensible => UnknownValue("") \notin {Bare(v) : v \in ToSet(V)}
  BY <1>2
<1>4. QED
  BY <1>1, <1>3 DEF EnumCompiles, Bare

----------------------------------------------------------------------------

LEMMA FitIfInv == ASSUME Ready PROVE HelpersFit
<1>1. ASSUME NEW m \in DOMAIN crate.models, NEW f \in Emitted(m)
      PROVE  /\ Fits(m, f, SerPath(m, f), FALSE) /\ Fits(m, f, DePath(m, f), TRUE)
             /\ \A key \in {"serialize_with", "deserialize_with"} :
                   Cardinality({p \in Params(m, f) : p.key \in {key, "with"}}) <= 1
  BY <1>1, FieldFits DEF Emitted, Model, Named
<1>2. \A i \in DOMAIN emitted :
         LET used == UNION {UNION {Params(m, f) : f \in Emitted(m)} : m \in Elements(crate.modules[i])}
         IN /\ DOMAIN emitted[i].serde = NamedIn(used, "models_serde")
            /\ DOMAIN emitted[i].xml = NamedIn(used, "xml_helpers")
  <2>1. DOMAIN emitted = 1..Len(crate.modules)
    <3>1. TypeInv /\ ModulesEmitted /\ modules = <<>>
      BY DEF Ready, SerdeInv, FormatsInv, EmissionInv
    <3>2. DOMAIN emitted = 1..Len(emitted) /\ Len(emitted) \in Nat /\ Len(crate.modules) \in Nat /\ Len(modules) = 0
      BY <3>1, ModulesTyped
    <3>3. QED
      BY <3>1, <3>2 DEF ModulesEmitted
  <2>2. QED
    BY <2>1, HelpersUsed
<1>3. \A n \in DOMAIN crate.enums : EnumCompiles(RustEnum(crate.enums[n]))
  <2>1. \A n \in DOMAIN crate.enums : crate.enums[n] \in Enums
    BY CrateTyped DEF Ready, SerdeInv, FormatsInv, IsCrate
  <2>2. \A n \in DOMAIN crate.enums : \A v \in ToSet(crate.enums[n].values) :
          ~crate.enums[n].fixed /\ ~crate.enums[n].merged => FixUpEnumValueName(v) # UnknownValue("").name
    BY DEF Ready, HelpersSupported
  <2>3. QED
    BY <2>1, <2>2, EnumsCompile
<1>4. QED
  BY <1>1, <1>2, <1>3 DEF HelpersFit

\* Whichever the crate, if every field is of a type that the functions of
\* azure_core and the emitted helpers are made for, literals that are numbers
\* have neither sign nor exponent, and two fields that share a helper agree on
\* what it is for: the function that an attribute names exists in the module of
\* the model under a legal name, compiles and takes the type of the field, in
\* either direction there is one, a module holds the functions that its own
\* models use and no others, and the variants of every enum have names of
\* their own (addSerDeHelper, getXMLListWrapper, emitModels, getEnum).
THEOREM FieldsFitTheirHelpers == Spec /\ ReachedPlainly(crate) /\ HelpersSupported(crate) => []HelpersFit
<1>1. ReachedPlainly(crate) /\ HelpersSupported(crate) /\ [Next]_vars => (ReachedPlainly(crate) /\ HelpersSupported(crate))'
  BY CrateStays
<1>2. SerdeInv /\ ReachedPlainly(crate) /\ HelpersSupported(crate) => HelpersFit
  BY FitIfInv DEF Ready, HelpersFit
<1>3. QED
  BY <1>1, <1>2, SerdeInvariant, PTL DEF Spec

----------------------------------------------------------------------------
(* What a field keeps of its property. *)

LEMMA ContainsMore ==
    ASSUME NEW S, NEW s \in Seq(S), NEW x, NEW y
    PROVE  Contains(<<x>> \o s, y) <=> x = y \/ Contains(s, y)
<1> DEFINE T == S \cup {x}
           u == <<x>> \o s
<1>1. s \in Seq(T) /\ <<x>> \in Seq(T) /\ Len(<<x>>) = 1 /\ <<x>>[1] = x
  <2>1. S \subseteq T /\ x \in T
    OBVIOUS
  <2> HIDE DEF T
  <2>2. QED
    BY <2>1, LenProperties
<1> HIDE DEF T
<1>2. u \in Seq(T) /\ Len(u) = 1 + Len(s) /\ Len(s) \in Nat /\ \A i \in 1..Len(u) : u[i] = IF i <= 1 THEN <<x>>[i] ELSE s[i - 1]
  BY <1>1, ConcatProperties
<1>3. u[1] = x /\ 1 \in 1..Len(u)
  BY <1>1, <1>2
<1>4. \A i \in 1..Len(s) : i + 1 \in 1..Len(u) /\ u[i + 1] = s[i]
  BY <1>2
<1>5. \A i \in 1..Len(u) : i = 1 \/ (i - 1 \in 1..Len(s) /\ u[i] = s[i - 1])
  BY <1>2
<1> HIDE DEF u
<1>6. Contains(u, y) <=> x = y \/ Contains(s, y)
  <2>1. /\ Contains(u, y) <=> \E i \in 1..Len(u) : u[i] = y
        /\ Contains(s, y) <=> \E i \in 1..Len(s) : s[i] = y
    BY DEF Contains
  <2>2. ASSUME NEW i \in 1..Len(u), u[i] = y
        PROVE  x = y \/ Contains(s, y)
    <3>1. CASE i = 1
      BY <1>3, <2>2, <3>1
    <3>2. CASE i - 1 \in 1..Len(s) /\ u[i] = s[i - 1]
      BY <2>1, <2>2, <3>2
    <3>3. QED
      BY <1>5, <3>1, <3>2
  <2>3. ASSUME NEW i \in 1..Len(s), s[i] = y
        PROVE  Contains(u, y)
    BY <1>4, <2>1, <2>3
  <2>4. x = y => Contains(u, y)
    BY <1>3, <2>1
  <2>5. QED
    BY <2>1, <2>2, <2>3, <2>4
<1>7. QED
  BY <1>6 DEF u

LEMMA OptionIs ==
    ASSUME NEW c, NEW t \in Types(c)
    PROVE  Option(t) = [wraps |-> <<"option">> \o t.wraps, leaf |-> t.leaf]
<1> DEFINE s == <<"option">> \o t.wraps
<1>1. Option(t) = [t EXCEPT !.wraps = s]
  BY TypeParts DEF Option
<1>2. t = [wraps |-> t.wraps, leaf |-> t.leaf]
  BY TypeParts
<1> HIDE DEF s
<1>3. [t EXCEPT !.wraps = s] = [wraps |-> s, leaf |-> t.leaf]
  BY <1>2
<1>4. QED
  BY <1>1, <1>3 DEF s

LEMMA FieldKeeps ==
    ASSUME TypeInv, NEW m \in DOMAIN crate.models, NEW i \in DOMAIN Model(m).props
    PROVE  LET p == Model(m).props[i]
               f == Fields(m)[i]
           IN /\ p \in Properties(crate) /\ f \in FieldTypes(crate) /\ p \in Elements(Model(m).props) /\ f \in Elements(Fields(m))
              /\ f.name = p.name /\ f.serde = (IF p.xmlName # "" THEN p.xmlName ELSE p.wire)
              /\ f.optional = p.optional /\ f.readOnly = p.readOnly /\ f.xmlKind = XMLKind(p)
              /\ f.emptyAsNull = p.emptyAsNull /\ f.deserializeWith = p.deserializeWith
              /\ f.type.leaf = p.type.leaf
              /\ LET inner == IF (NotSpreadOnly(Model(m).usage) \/ p.optional) /\ ~p.pageItems
                              THEN <<"option">> \o p.type.wraps ELSE p.type.wraps
                 IN f.type.wraps = IF Model(m).base THEN <<"ref">> \o inner ELSE inner
<1> DEFINE p == Model(m).props[i]
           f == Fields(m)[i]
           g == GetModelField(Model(m).usage, p)
           inner == IF (NotSpreadOnly(Model(m).usage) \/ p.optional) /\ ~p.pageItems
                    THEN <<"option">> \o p.type.wraps ELSE p.type.wraps
<1>1. p \in Properties(crate) /\ p \in Elements(Model(m).props)
  BY CrateTyped, ElementOfSeq DEF Elements
<1>2. i \in DOMAIN Fields(m) /\ f = FieldAt(m, i) /\ FieldAt(m, i) \in FieldTypes(crate) /\ f \in Elements(Fields(m))
  BY FieldsTyped DEF Elements
<1>3. f = IF Model(m).base THEN [g EXCEPT !.type.wraps = <<"ref">> \o @] ELSE g
  BY <1>2 DEF FieldAt
<1>4. p.type \in Types(crate)
  BY <1>1, PropertyTyped
<1>5. /\ g.name = p.name /\ g.serde = (IF p.xmlName # "" THEN p.xmlName ELSE p.wire)
      /\ g.optional = p.optional /\ g.readOnly = p.readOnly /\ g.xmlKind = XMLKind(p)
      /\ g.emptyAsNull = p.emptyAsNull /\ g.deserializeWith = p.deserializeWith
  BY DEF GetModelField
<1>6. g.type = IF (NotSpreadOnly(Model(m).usage) \/ p.optional) /\ ~p.pageItems THEN Option(p.type) ELSE p.type
  BY DEF GetModelField
<1>7. Option(p.type) = [wraps |-> <<"option">> \o p.type.wraps, leaf |-> p.type.leaf]
  BY <1>4, OptionIs
<1>8. g.type.leaf = p.type.leaf /\ g.type.wraps = inner
  BY <1>6, <1>7
<1>9. g \in FieldTypes(crate)
  BY <1>1, GetModelFieldTyped
<1>10. LET h == [g EXCEPT !.type.wraps = <<"ref">> \o @]
       IN /\ h.name = g.name /\ h.serde = g.serde /\ h.optional = g.optional /\ h.readOnly = g.readOnly /\ h.xmlKind = g.xmlKind
          /\ h.emptyAsNull = g.emptyAsNull /\ h.deserializeWith = g.deserializeWith
          /\ h.type.leaf = g.type.leaf /\ h.type.wraps = <<"ref">> \o g.type.wraps
  <2>1. g.type \in Types(crate)
    BY <1>9 DEF FieldTypes
  <2>2. g.type = [wraps |-> g.type.wraps, leaf |-> g.type.leaf]
    BY <2>1, TypeParts
  <2> HIDE DEF g
  <2>3. QED
    BY <1>9, <2>2 DEF FieldTypes
<1> HIDE DEF g, p
<1>11. CASE Model(m).base
  BY <1>1, <1>2, <1>3, <1>5, <1>8, <1>10, <1>11 DEF p
<1>12. CASE ~Model(m).base
  BY <1>1, <1>2, <1>3, <1>5, <1>8, <1>12 DEF p
<1>13. QED
  BY <1>11, <1>12

----------------------------------------------------------------------------
(* What the options of an attribute tell. *)

LEMMA OptionsTold ==
    ASSUME NEW f, NEW format, NEW visible
    PROVE  LET params == SerdeParams(f, format, visible)
           IN /\ {q \in params : q.key = "rename"} = RenameParams(f)
              /\ (\E q \in params : q.key = "skip_serializing") <=> f.readOnly
              /\ (\E q \in params : q.key = "skip_if_none") <=>
                    ~f.readOnly /\ Outer(f.type) = "option"
                      /\ (f.optional \/ ~IsLiteral(Inner(f.type).leaf) \/ Len(f.type.wraps) > 1)
<1>0. \A key, path : Param(key, path).key = key
  BY DEF Param
<1>1. \A q \in RenameParams(f) : q.key = "rename"
  BY <1>0 DEF RenameParams
<1>2. \A q \in CodecParams(f, format) : q.key \in Codecs \cup {"default"}
  BY <1>0 DEF CodecParams, CustomParams, WithParams, Default, Codecs
<1>3. \A q \in DefaultParams(f, visible) : q.key = "default"
  BY <1>0 DEF DefaultParams, Default
<1>4. \A q \in DecimalParams(f) : q.key = "with"
  BY <1>0 DEF DecimalParams
<1>5. SkipParams(f) = IF f.readOnly THEN {Param("skip_serializing", <<>>)}
                      ELSE IF Outer(f.type) = "option" /\ (f.optional \/ ~IsLiteral(Inner(f.type).leaf) \/ Len(f.type.wraps) > 1)
                      THEN {Param("skip_if_none", <<>>)} ELSE {}
  BY DEF SkipParams
<1> DEFINE skips == SkipParams(f)
           leaves == Outer(f.type) = "option" /\ (f.optional \/ ~IsLiteral(Inner(f.type).leaf) \/ Len(f.type.wraps) > 1)
<1>6. /\ \A q \in skips : q.key \in {"skip_serializing", "skip_if_none"}
      /\ (\E q \in skips : q.key = "skip_serializing") <=> f.readOnly
      /\ (\E q \in skips : q.key = "skip_if_none") <=> ~f.readOnly /\ leaves
  <2>1. CASE f.readOnly
    BY <1>0, <1>5, <2>1
  <2>2. CASE ~f.readOnly /\ leaves
    BY <1>0, <1>5, <2>2
  <2>3. CASE ~f.readOnly /\ ~leaves
    BY <1>0, <1>5, <2>3
  <2>4. QED
    BY <2>1, <2>2, <2>3
<1>7. SerdeParams(f, format, visible) = RenameParams(f) \cup CodecParams(f, format) \cup skips \cup DefaultParams(f, visible) \cup DecimalParams(f)
  BY DEF SerdeParams
<1>8. "default" # "rename" /\ "with" # "rename" /\ Codecs = {"with", "serialize_with", "deserialize_with"}
  BY DEF Codecs
<1> HIDE DEF skips
<1>9. QED
  BY <1>1, <1>2, <1>3, <1>4, <1>6, <1>7, <1>8

\* Where an entry is for a field.
KeyFor(f) == IF f.xmlKind = "text" THEN "" ELSE f.serde

MarkFor(f) == CASE f.xmlKind = "text" -> "$text" [] f.xmlKind = "attribute" -> "@" [] OTHER -> ""

LEMMA PlaceTold ==
    ASSUME NEW c, NEW f \in FieldTypes(c), f.serde \notin {"@", "$text"}, NEW rename,
           rename = IF RenameParams(f) = {} THEN <<f.name>> ELSE (CHOOSE q \in RenameParams(f) : TRUE).path
    PROVE  /\ (IF rename = <<"$text">> THEN "" ELSE Last(rename)) = KeyFor(f)
           /\ (IF Head(rename) \in {"@", "$text"} THEN Head(rename) ELSE "") = MarkFor(f)
<1>1. \A x, y : <<x, y>> # <<"$text">> /\ Last(<<x, y>>) = y /\ Head(<<x, y>>) = x /\ Last(<<x>>) = x /\ Head(<<x>>) = x
  BY DEF Last
<1>2. \A q : {q} # {} /\ (CHOOSE r \in {q} : TRUE) = q
  OBVIOUS
<1>3. \A key, path : Param(key, path).path = path
  BY DEF Param
<1>4. f.xmlKind \in {"", "attribute", "unwrappedList", "text"}
  BY DEF FieldTypes
<1>5. CASE f.xmlKind = "text"
  <2>1. RenameParams(f) = {Param("rename", <<"$text">>)}
    BY <1>5 DEF RenameParams
  <2>2. rename = <<"$text">>
    BY <1>2, <1>3, <2>1
  <2>3. KeyFor(f) = "" /\ MarkFor(f) = "$text"
    BY <1>5 DEF KeyFor, MarkFor
  <2>4. Head(rename) = "$text"
    BY <1>1, <2>2
  <2>5. QED
    BY <2>2, <2>3, <2>4
<1>6. CASE f.xmlKind = "attribute"
  <2>1. RenameParams(f) = {Param("rename", <<"@", f.serde>>)}
    BY <1>6 DEF RenameParams
  <2>2. rename = <<"@", f.serde>>
    BY <1>2, <1>3, <2>1
  <2>3. KeyFor(f) = f.serde /\ MarkFor(f) = "@"
    BY <1>6 DEF KeyFor, MarkFor
  <2>4. rename # <<"$text">> /\ Last(rename) = f.serde /\ Head(rename) = "@"
    BY <1>1, <2>2
  <2>5. QED
    BY <2>3, <2>4
<1>7. CASE f.xmlKind \notin {"attribute", "text"}
  <2>1. RenameParams(f) = IF f.name = f.serde THEN {} ELSE {Param("rename", <<f.serde>>)}
    BY <1>7 DEF RenameParams
  <2>2. rename = <<f.serde>>
    BY <1>2, <1>3, <2>1
  <2>3. <<f.serde>> # <<"$text">>
    OBVIOUS
  <2>4. KeyFor(f) = f.serde /\ MarkFor(f) = ""
    BY <1>7 DEF KeyFor, MarkFor
  <2>5. rename # <<"$text">> /\ Last(rename) = f.serde /\ Head(rename) = f.serde
    BY <1>1, <2>2, <2>3
  <2>6. QED
    BY <2>4, <2>5
<1>8. QED
  BY <1>5, <1>6, <1>7

----------------------------------------------------------------------------
(* The values of enums and untagged unions. *)

LEMMA LeastIn ==
    ASSUME NEW S \in SUBSET Nat, S # {}
    PROVE  Min(S) \in S /\ \A x \in S : Min(S) <= x
<1> DEFINE less == OpToRel(<, Nat)
<1>0. IsWellFoundedOn(less, Nat) /\ S \subseteq Nat
  BY NatLessThanWellFounded
<1>1. \A x, y \in Nat : <<x, y>> \in less <=> x < y
  BY DEF OpToRel
<1> HIDE DEF less
<1>2. PICK m \in S : \A k \in S : <<k, m>> \notin less
  BY <1>0, WFMin
<1>3. \A k \in S : m <= k
  <2>1. \A k \in S : k \in Nat /\ m \in Nat /\ ~(k < m)
    BY <1>0, <1>1, <1>2
  <2>2. QED
    BY <2>1
<1>4. QED
  BY <1>2, <1>3 DEF Min

LEMMA GreatestIn ==
    ASSUME NEW n \in Nat, NEW S \in SUBSET (1..n), S # {}
    PROVE  Max(S) \in S
<1> DEFINE R == {n - x : x \in S}
           least == Min(R)
<1>1. R \in SUBSET Nat /\ R # {}
  <2>1. \A x \in S : n - x \in Nat
    OBVIOUS
  <2>2. QED
    BY <2>1
<1> HIDE DEF R
<1>2. least \in R /\ \A x \in R : least <= x
  BY <1>1, LeastIn
<1>3. PICK m \in S : least = n - m
  BY <1>2 DEF R
<1>4. \A x \in S : n - x \in R
  BY DEF R
<1>5. \A x \in S : m >= x
  <2>1. \A x \in S : n - m <= n - x /\ m \in Nat /\ x \in Nat
    BY <1>2, <1>3, <1>4
  <2>2. QED
    BY <2>1
<1>6. QED
  BY <1>5 DEF Max

\* A variant of a Rust enum is written as what it was read from.
LEMMA EnumWritten ==
    ASSUME NEW e \in Enums, NEW text,
           e.merged => \A v, w \in ToSet(e.values) : FixUpEnumValueName(v) = FixUpEnumValueName(w) => v.wire = w.wire
    PROVE  ToWire(VariantFor(e, text)) = text
<1> DEFINE n == Len(e.values)
           at == {i \in DOMAIN e.values : e.values[i].wire = text}
           k == Min(at)
           first == Min(SameName(e, k))
<1>1. n \in Nat /\ DOMAIN e.values = 1..n /\ \A i \in 1..n : e.values[i] \in ToSet(e.values)
  BY LenProperties DEF Enums, ToSet
<1>2. \A name, group, id, wireText : Variant(name, group, id, wireText).wire = wireText
  BY DEF Variant
<1>3. CASE at = {}
  BY <1>2, <1>3 DEF VariantFor, ToWire, UnknownValue
<1>4. CASE at # {}
  <2>1. k \in at /\ k \in 1..n /\ e.values[k].wire = text
    <3>1. at \in SUBSET Nat
      BY <1>1
    <3>2. k \in at
      BY <1>4, <3>1, LeastIn
    <3>3. QED
      BY <1>1, <3>2
  <2>2. VariantFor(e, text) = RustEnum(e).variants[k]
    BY <1>4 DEF VariantFor
  <2>3. CASE e.merged
    <3>1. SameName(e, k) \in SUBSET Nat /\ k \in SameName(e, k)
      BY <1>1, <2>1 DEF SameName
    <3>2. first \in SameName(e, k)
      BY <3>1, LeastIn
    <3>3. first \in 1..n /\ FixUpEnumValueName(e.values[first]) = FixUpEnumValueName(e.values[k])
      BY <1>1, <3>2 DEF SameName
    <3>4. e.values[first].wire = text
      BY <1>1, <2>1, <2>3, <3>3
    <3>5. RustEnum(e).variants[k] = Variant(FixUpEnumValueName(e.values[k]), 0, 0, e.values[first].wire)
      BY <1>1, <2>1, <2>3 DEF RustEnum, GetMergedFlatEnum
    <3>6. QED
      BY <1>2, <2>2, <3>4, <3>5 DEF ToWire
  <2>4. CASE ~e.merged
    <3>1. \E name, group, id : RustEnum(e).variants[k] = Variant(name, group, id, e.values[k].wire)
      BY <1>1, <2>1, <2>4 DEF RustEnum, GetEnum
    <3>2. QED
      BY <1>2, <2>1, <2>2, <3>1 DEF ToWire
  <2>5. QED
    BY <2>3, <2>4
<1>5. QED
  BY <1>3, <1>4

\* Of the types that describe a value, one is narrowest.
LEMMA NarrowestThere ==
    ASSUME NEW S, NEW variants \in Seq(S), NEW value, NEW t \in ToSet(variants), value \in ValuesOf(t)
    PROVE  \E s \in Narrowest(variants, value) : s \in ToSet(variants) /\ value \in ValuesOf(s)
<1> DEFINE fitting == {s \in ToSet(variants) : value \in ValuesOf(s)}
           Narrower(s, r) == ValuesOf(s) \subseteq ValuesOf(r) /\ ValuesOf(s) # ValuesOf(r)
           Below(r) == {s \in fitting : Narrower(s, r)}
           counts == {Cardinality(Below(r)) : r \in fitting}
<1>1. IsFiniteSet(fitting)
  <2>1. IsFiniteSet(ToSet(variants))
    <3>1. Len(variants) \in Nat /\ DOMAIN variants = 1..Len(variants)
      BY LenProperties
    <3>2. IsFiniteSet(1..Len(variants))
      BY <3>1, UpToFinite
    <3> DEFINE I == 1..Len(variants)
               f == [i \in I |-> variants[i]]
    <3>3. f \in Surjection(I, ToSet(variants))
      BY <3>1 DEF Surjection, ToSet
    <3> HIDE DEF I, f
    <3>4. QED
      BY <3>2, <3>3, FS_Surjection DEF I
  <2>2. QED
    BY <2>1, FS_Subset
<1>2. t \in fitting
  OBVIOUS
<1>3. \A r : IsFiniteSet(Below(r)) /\ Cardinality(Below(r)) \in Nat
  <2>1. \A r : Below(r) \subseteq fitting
    OBVIOUS
  <2> HIDE DEF Below, fitting
  <2>2. QED
    BY <1>1, <2>1, FS_Subset, FS_CardinalityType
<1>4. Narrowest(variants, value) = {r \in fitting : \A s \in fitting : ~Narrower(s, r)}
  BY DEF Narrowest
<1>5. \A r, s, q : Narrower(r, s) /\ Narrower(s, q) => Narrower(r, q)
  OBVIOUS
<1>6. \A r : ~Narrower(r, r)
  OBVIOUS
<1> HIDE DEF fitting, Narrower
<1>7. counts \in SUBSET Nat /\ counts # {}
  BY <1>2, <1>3
<1>8. PICK r \in fitting : \A s \in fitting : Cardinality(Below(r)) <= Cardinality(Below(s))
  <2> HIDE DEF Below
  <2>1. Min(counts) \in counts /\ \A x \in counts : Min(counts) <= x
    <3> HIDE DEF counts
    <3>1. QED
      BY <1>7, LeastIn
  <2>2. PICK r \in fitting : Min(counts) = Cardinality(Below(r))
    BY <2>1
  <2>3. QED
    BY <2>1, <2>2
<1>9. ASSUME NEW s \in fitting, Narrower(s, r)
      PROVE  FALSE
  <2>1. Below(s) \subseteq Below(r) /\ s \in Below(r) /\ s \notin Below(s)
    BY <1>5, <1>6, <1>9
  <2> HIDE DEF Below
  <2>2. Below(s) # Below(r)
    BY <2>1
  <2>3. Cardinality(Below(s)) < Cardinality(Below(r))
    BY <1>3, <2>1, <2>2, FS_Subset
  <2>4. QED
    BY <1>3, <1>8, <2>3
<1>10. r \in Narrowest(variants, value)
  BY <1>4, <1>9
<1>11. QED
  BY <1>10 DEF fitting

LEMMA GivenIsWritten ==
    ASSUME TypeInv, SendingSupported(crate), NEW t \in Types(crate), HasValue(t),
           NEW s \in ToSet(Variants(t.leaf)), NEW value \in ValuesOf(s)
    PROVE  WrittenValue(t.leaf, value) = value
<1> DEFINE leaf == t.leaf
           variants == Variants(leaf)
           chosen == CHOOSE v \in Narrowest(variants, value) : TRUE
<1>1. IsCrate(crate)
  BY CrateTyped
<1>2. \E S : variants \in Seq(S) /\ \A v \in ToSet(variants) : Outer(v) = "enum" => v.leaf.of[1] \in DOMAIN crate.enums /\ Enum(v.leaf) \in Enums
  <2>1. CASE leaf.kind = "enum"
    <3> DEFINE v == [wraps |-> <<>>, leaf |-> leaf]
    <3>1. variants = <<v>>
      BY <2>1 DEF Variants
    <3>2. leaf.of[1] \in DOMAIN crate.enums /\ crate.enums[leaf.of[1]] \in Enums
      BY <1>1, <2>1, TypeParts DEF IsCrate
    <3>3. v.leaf = leaf
      OBVIOUS
    <3> HIDE DEF v, variants
    <3>4. variants \in Seq({v}) /\ ToSet(variants) = {v}
      <4>1. DOMAIN <<v>> = {1} /\ <<v>>[1] = v /\ <<v>> \in Seq({v})
        OBVIOUS
      <4>2. QED
        BY <3>1, <4>1 DEF ToSet
    <3>5. v.leaf.of[1] \in DOMAIN crate.enums /\ Enum(v.leaf) \in Enums
      BY <3>2, <3>3 DEF Enum
    <3>6. QED
      BY <3>4, <3>5
  <2>2. CASE leaf.kind # "enum"
    <3>1. leaf.kind = "untagged" /\ variants = crate.untagged[leaf.of[1]] /\ leaf.of[1] \in DOMAIN crate.untagged
      BY <2>2, TypeParts DEF HasValue, Variants
    <3>2. variants \in Seq(Types(crate))
      BY <1>1, <3>1 DEF IsCrate
    <3>3. ASSUME NEW v \in ToSet(variants), Outer(v) = "enum"
          PROVE  v.leaf.of[1] \in DOMAIN crate.enums /\ Enum(v.leaf) \in Enums
      <4>1. v \in Types(crate)
        BY <3>2, ElementsOfSeq
      <4>2. v.leaf.kind = "enum"
        <5>1. CASE v.wraps = <<>>
          BY <3>3, <5>1 DEF Outer
        <5>2. CASE v.wraps # <<>>
          <6>1. Outer(v) \in Wrappers
            BY <4>1, <5>2, TypeParts, HeadAndTail DEF Outer
          <6>2. QED
            BY <3>3, <6>1 DEF Wrappers
        <5>3. QED
          BY <5>1, <5>2
      <4>3. QED
        BY <1>1, <4>1, <4>2, TypeParts DEF IsCrate, Enum
    <3>4. QED
      BY <3>2, <3>3
  <2>3. QED
    BY <2>1, <2>2
<1> HIDE DEF variants
<1>3. Narrowest(variants, value) # {} /\ Narrowest(variants, value) \subseteq {v \in ToSet(variants) : value \in ValuesOf(v)}
  <2>1. s \in ToSet(variants)
    BY DEF variants
  <2>2. Narrowest(variants, value) # {}
    BY <1>2, <2>1, NarrowestThere
  <2>3. QED
    BY <2>2 DEF Narrowest
<1>4. chosen \in ToSet(variants) /\ value \in ValuesOf(chosen)
  BY <1>3
<1>5. WrittenValue(leaf, value) = IF Outer(chosen) = "enum" THEN WrittenEnum(chosen.leaf, value) ELSE value
  BY DEF WrittenValue, variants
<1> HIDE DEF chosen
<1>6. ASSUME Outer(chosen) = "enum"
      PROVE  WrittenEnum(chosen.leaf, value) = value
  <2> DEFINE e == Enum(chosen.leaf)
  <2>1. e \in Enums /\ chosen.leaf.of[1] \in DOMAIN crate.enums
    BY <1>2, <1>4, <1>6
  <2>2. e.merged => /\ e.kind = "text"
                    /\ \A v, w \in ToSet(e.values) : FixUpEnumValueName(v) = FixUpEnumValueName(w) => v.wire = w.wire
    <3>1. \A n \in DOMAIN crate.enums : crate.enums[n].merged =>
            /\ crate.enums[n].kind = "text"
            /\ \A v, w \in ToSet(crate.enums[n].values) : FixUpEnumValueName(v) = FixUpEnumValueName(w) => v.wire = w.wire
      BY DEF SendingSupported
    <3>2. QED
      BY <2>1, <3>1 DEF Enum
  <2>3. \E text : value = <<e.kind, text>>
    BY <1>4, <1>6 DEF ValuesOf
  <2>4. PICK text : value = <<e.kind, text>>
    BY <2>3
  <2>5. ToWire(VariantFor(e, text)) = text
    BY <2>1, <2>2, EnumWritten
  <2>6. RustEnum(e).type = e.kind
    BY <2>2 DEF RustEnum, GetEnum, GetMergedFlatEnum
  <2>7. QED
    BY <2>4, <2>5, <2>6 DEF WrittenEnum
<1>7. QED
  BY <1>5, <1>6

\* The tag of a member is that of its only union.
LEMMA TagsWritten ==
    ASSUME TypeInv, SendingSupported(crate), NEW m \in DOMAIN crate.models, NEW u \in Carriers(m), u # NoUnion, m # u.base
    PROVE  WrittenTags(u, m) = DescribedTags(u, m)
<1> DEFINE us == {w \in Unions : m \in MembersOf(w) \cup {w.base}}
           holding == Holding(crate, ModuleOf(m), m)
           last == Max(holding)
<1>1. u \in Unions /\ m \in MembersOf(u)
  <2>1. Carriers(m) = IF us = {} THEN {NoUnion} ELSE us
    BY DEF Carriers
  <2>2. QED
    BY <2>1
<1>2. MemberSupported(crate, u, m)
  BY <1>1 DEF SendingSupported, Unions
<1>3. \A w \in Unions : m \in MembersOf(w) => w = u
  BY <1>2 DEF MemberSupported, Unions
<1>4. crate.unions = [i \in 1..Len(crate.unions) |-> crate.unions[i]] /\ Len(crate.unions) \in Nat
  BY CrateTyped DEF IsCrate
<1>5. DOMAIN crate.unions = 1..Len(crate.unions)
  BY <1>4
<1>6. u.kind = "base" => crate.unions[last] = u
  <2>1. holding \subseteq 1..Len(crate.unions)
    BY <1>5 DEF Holding
  <2>2. \A i \in holding : crate.unions[i] = u
    BY <1>3 DEF Unions, Elements, Holding
  <2>3. SUFFICES ASSUME u.kind = "base" PROVE crate.unions[last] = u
    OBVIOUS
  <2>4. {i \in DOMAIN crate.modules : Contains(crate.modules[i], m)} = {u.module}
    BY <1>2, <2>3 DEF MemberSupported
  <2>5. ModuleOf(m) = u.module
    BY <2>4 DEF ModuleOf
  <2>6. holding # {}
    BY <1>1, <2>5 DEF Unions, Elements, Holding
  <2>7. last \in holding
    BY <1>4, <2>1, <2>6, GreatestIn
  <2>8. QED
    BY <2>2, <2>7
<1>7. DescribedTags(u, m) = <<Tag(IF Model(m).discriminator = "" THEN u.tag ELSE Discriminator(m).serde, ValueOf(u, m))>>
  BY DEF DescribedTags
<1>8. StructTag(m) = IF Model(m).discriminator = "" \/ Model(m).base \/ Model(m).xmlName # "" THEN <<>>
                     ELSE <<Tag(Discriminator(m).serde, ValueOf(crate.unions[last], m))>>
  BY DEF StructTag
<1> HIDE DEF last
<1>9. CASE u.kind = "base"
  <2>1. Model(m).discriminator # "" /\ ~Model(m).base /\ Model(m).xmlName = ""
    BY <1>2, <1>9 DEF MemberSupported, Model
  <2> DEFINE x == Tag(Discriminator(m).serde, ValueOf(u, m))
  <2>2. StructTag(m) = <<x>> /\ DescribedTags(u, m) = <<x>> /\ WrittenTags(u, m) = <<>> \o StructTag(m)
    BY <1>6, <1>7, <1>8, <1>9, <2>1 DEF WrittenTags
  <2> HIDE DEF x
  <2>3. <<>> \o <<x>> = <<x>>
    OBVIOUS
  <2>4. QED
    BY <2>2, <2>3
<1>10. CASE u.kind # "base"
  <2>1. Model(m).discriminator = ""
    BY <1>2, <1>10 DEF MemberSupported, Model
  <2> DEFINE x == Tag(u.tag, ValueOf(u, m))
  <2>2. StructTag(m) = <<>> /\ DescribedTags(u, m) = <<x>> /\ WrittenTags(u, m) = <<x>> \o StructTag(m)
    BY <1>7, <1>8, <1>10, <2>1 DEF WrittenTags
  <2> HIDE DEF x
  <2>3. <<x>> \o <<>> = <<x>>
    OBVIOUS
  <2>4. QED
    BY <2>2, <2>3
<1>11. QED
  BY <1>9, <1>10

----------------------------------------------------------------------------
(* How a field is written. *)

LEMMA ContainedIn == ASSUME NEW S, NEW s \in Seq(S), NEW x PROVE Contains(s, x) <=> x \in Elements(s)
<1>1. DOMAIN s = 1..Len(s)
  BY LenProperties
<1>2. QED
  BY <1>1 DEF Contains, Elements

LEMMA UnwrapIs ==
    ASSUME NEW c, NEW t \in Types(c)
    PROVE  /\ t.wraps = <<>> => UnwrapOption(t).wraps = <<>>
           /\ t.wraps # <<>> /\ Head(t.wraps) # "option" => UnwrapOption(t).wraps = t.wraps
           /\ t.wraps # <<>> /\ Head(t.wraps) = "option" => UnwrapOption(t).wraps = Tail(t.wraps)
           /\ UnwrapOption(t).leaf = t.leaf
<1>1. t = [wraps |-> t.wraps, leaf |-> t.leaf] /\ t.leaf.kind # "option"
  BY TypeParts DEF Kinds
<1>2. Outer(t) = "option" <=> t.wraps # <<>> /\ Head(t.wraps) = "option"
  BY <1>1 DEF Outer
<1>3. Inner(t).wraps = Tail(t.wraps) /\ Inner(t).leaf = t.leaf
  BY <1>1 DEF Inner
<1>4. QED
  BY <1>2, <1>3 DEF UnwrapOption

LEMMA VecOutside ==
    ASSUME NEW c, NEW t \in Types(c)
    PROVE  /\ Outer(t) = "Vec" => Contains(t.wraps, "Vec")
           /\ Outer(UnwrapOption(t)) = "Vec" => Contains(t.wraps, "Vec")
<1>1. t.wraps \in Seq(Wrappers) /\ t.leaf.kind # "Vec" /\ UnwrapOption(t).leaf = t.leaf
  BY TypeParts, UnwrapIs DEF Kinds
<1>2. t.wraps # <<>> => /\ Head(t.wraps) \in Elements(t.wraps) /\ Tail(t.wraps) \in Seq(Wrappers)
                        /\ Elements(Tail(t.wraps)) \subseteq Elements(t.wraps)
  BY <1>1, HeadAndTail
<1>3. \A s \in Seq(Wrappers) : s # <<>> => Head(s) \in Elements(s)
  BY HeadAndTail
<1>4. Outer(t) = "Vec" => "Vec" \in Elements(t.wraps)
  BY <1>1, <1>2 DEF Outer
<1>5. Outer(UnwrapOption(t)) = "Vec" => "Vec" \in Elements(t.wraps)
  <2> DEFINE w == UnwrapOption(t).wraps
  <2>1. w = t.wraps \/ (t.wraps # <<>> /\ w = Tail(t.wraps))
    BY UnwrapIs
  <2>2. w \in Seq(Wrappers) /\ Elements(w) \subseteq Elements(t.wraps)
    BY <1>1, <1>2, <2>1
  <2>3. Outer(UnwrapOption(t)) = "Vec" => w # <<>> /\ Head(w) = "Vec"
    BY <1>1 DEF Outer
  <2> HIDE DEF w
  <2>4. QED
    BY <1>3, <2>2, <2>3
<1>6. QED
  BY <1>1, <1>4, <1>5, ContainedIn

\* The lists of a field are those of its property.
LEMMA FieldLists ==
    ASSUME TypeInv, NEW m \in DOMAIN crate.models, NEW i \in DOMAIN Model(m).props
    PROVE  LET p == Model(m).props[i]
               f == Fields(m)[i]
           IN /\ Contains(f.type.wraps, "Vec") <=> Contains(p.type.wraps, "Vec")
              /\ ~Model(m).base /\ (Contains(p.type.wraps, "Vec") => Outer(p.type) = "Vec")
                   => (Outer(UnwrapOption(f.type)) = "Vec" <=> Contains(p.type.wraps, "Vec"))
<1> DEFINE p == Model(m).props[i]
           f == Fields(m)[i]
           w == p.type.wraps
           made == (NotSpreadOnly(Model(m).usage) \/ p.optional) /\ ~p.pageItems
           inner == IF made THEN <<"option">> \o w ELSE w
<1>1. /\ p \in Properties(crate) /\ f \in FieldTypes(crate) /\ f.type.leaf = p.type.leaf
      /\ f.type.wraps = IF Model(m).base THEN <<"ref">> \o inner ELSE inner
  BY FieldKeeps
<1>2. p.type \in Types(crate) /\ f.type \in Types(crate) /\ w \in Seq(Wrappers) /\ p.type.leaf.kind # "Vec"
  <2>1. p.type \in Types(crate) /\ f.type \in Types(crate)
    BY <1>1 DEF Properties, FieldTypes
  <2>2. QED
    BY <2>1, TypeParts DEF Kinds
<1> HIDE DEF p, f
<1>3. Contains(<<"option">> \o w, "Vec") <=> Contains(w, "Vec")
  BY <1>2, ContainsMore
<1>4. inner \in Seq(Wrappers) /\ (Contains(inner, "Vec") <=> Contains(w, "Vec"))
  <2>1. <<"option">> \in Seq(Wrappers)
    BY DEF Wrappers
  <2>2. <<"option">> \o w \in Seq(Wrappers)
    BY <1>2, <2>1, ConcatProperties
  <2>3. QED
    BY <1>2, <1>3, <2>2
<1>5. Contains(<<"ref">> \o inner, "Vec") <=> Contains(inner, "Vec")
  <2> HIDE DEF inner
  <2>1. QED
    BY <1>4, ContainsMore
<1>6. Contains(f.type.wraps, "Vec") <=> Contains(w, "Vec")
  BY <1>1, <1>4, <1>5
<1>7. ASSUME ~Model(m).base, Contains(w, "Vec") => Outer(p.type) = "Vec"
      PROVE  Outer(UnwrapOption(f.type)) = "Vec" <=> Contains(w, "Vec")
  <2>1. Outer(UnwrapOption(f.type)) = "Vec" => Contains(w, "Vec")
    BY <1>2, <1>6, VecOutside
  <2>2. ASSUME Contains(w, "Vec")
        PROVE  Outer(UnwrapOption(f.type)) = "Vec"
    <3>1. w # <<>> /\ Head(w) = "Vec"
      BY <1>2, <1>7, <2>2 DEF Outer
    <3>2. UnwrapOption(f.type).wraps = w
      <4>1. CASE made
        <5> DEFINE s == <<"option">> \o w
        <5>1. s \in Seq(Wrappers) /\ s[1] = "option" /\ Tail(s) = w /\ s # <<>> /\ f.type.wraps = s
          BY <1>1, <1>2, <1>4, <1>7, <4>1, Prefixed
        <5> HIDE DEF s
        <5>2. Head(s) = "option"
          BY <5>1, HeadAndTail
        <5>3. QED
          BY <1>2, <5>1, <5>2, UnwrapIs
      <4>2. CASE ~made
        BY <1>1, <1>2, <1>7, <3>1, <4>2, UnwrapIs
      <4>3. QED
        BY <4>1, <4>2
    <3>3. QED
      BY <3>1, <3>2 DEF Outer
  <2>3. QED
    BY <2>1, <2>2
<1>8. QED
  BY <1>6, <1>7 DEF p, f

\* The helper that a field names was made for a field of the same name.
LEMMA ReadyMade ==
    ASSUME Ready, NEW i \in 1..Len(crate.modules), NEW x \in Pairs(crate, i)
    PROVE  LET f      == x[2]
               format == AskedFormatOf(crate, x[1])
               g      == emitted[i].serde[HelperName(f)]
               h      == emitted[i].xml[WrapperName(f)]
           IN /\ f \in FieldTypes(crate) /\ f \in FieldsIn(crate, i)
              /\ HasHelper(UnwrapType(f.type)) /\ InModelsSerde(f, format) =>
                    /\ g \in FieldTypes(crate) /\ g \in FieldsIn(crate, i) /\ HelperName(g) = HelperName(f) /\ ~LiteralInCollection(g)
              /\ ~HasHelper(UnwrapType(f.type)) /\ IsWrappedList(f, format) =>
                    /\ h \in FieldTypes(crate) /\ WrapperName(h) = WrapperName(f)
<1> DEFINE f == x[2]
           format(y) == AskedFormatOf(crate, y[1])
           serde == emitted[i].serde
           xml == emitted[i].xml
           g == serde[HelperName(f)]
           h == xml[WrapperName(f)]
<1>0. TypeInv
  BY DEF Ready, SerdeInv, FormatsInv
<1>1. i \in DOMAIN crate.modules /\ Pairs(crate, i) \subseteq AllPairs(crate)
  BY <1>0, ModulesTyped, ReadyParams
<1>2. \A y \in Pairs(crate, i) :
         /\ y[2] \in FieldTypes(crate) /\ y[1] \in Elements(crate.modules[i]) /\ y[2] \in EmittedFields(crate.models[y[1]])
         /\ ~LiteralInCollection(y[2])
         /\ ParamsAt[y] = SerdeParams(y[2], format(y), Model(y[1]).visible)
         /\ NamedIn(ParamsAt[y], "models_serde") \subseteq DOMAIN serde /\ NamedIn(ParamsAt[y], "xml_helpers") \subseteq DOMAIN xml
  <2>1. \A y \in Pairs(crate, i) : y[1] \in Elements(crate.modules[i])
    BY DEF Pairs
  <2>2. QED
    BY <1>0, <1>1, <2>1, PairParts, ReadyField, ReadyParams
<1>3. ASSUME NEW y \in Pairs(crate, i)
      PROVE  /\ NamedIn(ParamsAt[y], "models_serde")
                  = IF InModelsSerde(y[2], format(y)) /\ HasHelper(UnwrapType(y[2].type)) THEN {HelperName(y[2])} ELSE {}
             /\ NamedIn(ParamsAt[y], "xml_helpers")
                  = IF ~HasHelper(UnwrapType(y[2].type)) /\ IsWrappedList(y[2], format(y)) THEN {WrapperName(y[2])} ELSE {}
  <2> DEFINE k == y[2]
             other == format(y)
             visible == Model(y[1]).visible
  <2>1. k \in FieldTypes(crate) /\ ~LiteralInCollection(k) /\ ParamsAt[y] = SerdeParams(k, other, visible)
    BY <1>2
  <2> HIDE DEF k, other, visible
  <2>2. /\ NamedIn(SerdeParams(k, other, visible), "models_serde")
             = IF InModelsSerde(k, other) /\ HasHelper(UnwrapType(k.type)) THEN {HelperName(k)} ELSE {}
        /\ NamedIn(SerdeParams(k, other, visible), "xml_helpers")
             = IF ~HasHelper(UnwrapType(k.type)) /\ IsWrappedList(k, other) THEN {WrapperName(k)} ELSE {}
    BY <2>1, NamesInModules
  <2>3. QED
    BY <2>1, <2>2 DEF k, other
<1>4. /\ \A n \in DOMAIN serde : \E y \in Pairs(crate, i) : n \in NamedIn(ParamsAt[y], "models_serde") /\ serde[n] = y[2]
      /\ \A n \in DOMAIN xml : \E y \in Pairs(crate, i) : n \in NamedIn(ParamsAt[y], "xml_helpers") /\ xml[n] = y[2]
  BY ReadyParams DEF AllMadeBy, MadeBy
<1> HIDE DEF serde, xml
<1>5. \A y \in Pairs(crate, i) : y[2] \in FieldsIn(crate, i)
  BY <1>2 DEF FieldsIn
<1>6. ASSUME HasHelper(UnwrapType(f.type)), InModelsSerde(f, format(x))
      PROVE  g \in FieldTypes(crate) /\ g \in FieldsIn(crate, i) /\ HelperName(g) = HelperName(f) /\ ~LiteralInCollection(g)
  <2>1. HelperName(f) \in DOMAIN serde
    BY <1>2, <1>3, <1>6
  <2>2. PICK y \in Pairs(crate, i) : HelperName(f) \in NamedIn(ParamsAt[y], "models_serde") /\ g = y[2]
    BY <1>4, <2>1
  <2>3. HelperName(y[2]) = HelperName(f)
    BY <1>3, <2>2
  <2>4. y[2] \in FieldTypes(crate) /\ y[2] \in FieldsIn(crate, i) /\ ~LiteralInCollection(y[2])
    BY <1>2, <1>5
  <2> HIDE DEF g, f
  <2>5. QED
    BY <2>2, <2>3, <2>4
<1>7. ASSUME ~HasHelper(UnwrapType(f.type)), IsWrappedList(f, format(x))
      PROVE  h \in FieldTypes(crate) /\ WrapperName(h) = WrapperName(f)
  <2>1. WrapperName(f) \in DOMAIN xml
    BY <1>2, <1>3, <1>7
  <2>2. PICK y \in Pairs(crate, i) : WrapperName(f) \in NamedIn(ParamsAt[y], "xml_helpers") /\ h = y[2]
    BY <1>4, <2>1
  <2>3. WrapperName(y[2]) = WrapperName(f)
    BY <1>3, <2>2
  <2>4. y[2] \in FieldTypes(crate)
    BY <1>2
  <2> HIDE DEF h, f
  <2>5. QED
    BY <2>2, <2>3, <2>4
<1>8. QED
  BY <1>2, <1>5, <1>6, <1>7 DEF serde, xml

LEMMA HelperTells ==
    ASSUME NEW c, NEW f \in FieldTypes(c), NEW g \in FieldTypes(c), ~LiteralInCollection(f), ~LiteralInCollection(g),
           HelperName(g) = HelperName(f)
    PROVE  /\ g.type.leaf.enc = f.type.leaf.enc /\ (IsLiteral(g.type.leaf) <=> IsLiteral(f.type.leaf))
           /\ IsLiteral(f.type.leaf) => g.optional = f.optional /\ LiteralName(g) = LiteralName(f)
<1>1. f.type \in Types(c) /\ g.type \in Types(c) /\ f.optional \in BOOLEAN /\ g.optional \in BOOLEAN
  BY DEF FieldTypes
<1>2. \A h \in {f, g} : HelperName(h) = IF IsLiteral(h.type.leaf) THEN LiteralName(h) ELSE SerDeModName(h.type)
  BY DEF HelperName, LiteralInCollection
<1>3. IsLiteral(g.type.leaf) <=> IsLiteral(f.type.leaf)
  BY <1>1, <1>2, LiteralsNamedApart
<1>4. CASE IsLiteral(f.type.leaf)
  <2>1. LiteralName(g) = LiteralName(f)
    BY <1>2, <1>3, <1>4
  <2>2. \A h \in {f, g} : /\ LiteralName(h)[2] = h.type.leaf.enc
                          /\ LiteralName(h)[1] = IF h.optional THEN "serialize_optional" ELSE "serialize"
    BY LiteralParts
  <2>3. g.optional = f.optional
    BY <1>1, <2>1, <2>2
  <2>4. QED
    BY <1>3, <2>1, <2>2, <2>3
<1>5. CASE ~IsLiteral(f.type.leaf)
  <2>1. SerDeModName(g.type) = SerDeModName(f.type)
    BY <1>2, <1>3, <1>5
  <2>2. QED
    BY <1>1, <1>3, <1>5, <2>1, NameTells
<1>6. QED
  BY <1>4, <1>5

\* When a client sends: what the emitted code knows of a field.
Sending == Ready /\ SendingSupported(crate)

LEMMA SendingTyped ==
    ASSUME Sending
    PROVE  Ready /\ SerdeInv /\ TypeInv /\ SendingSupported(crate)
  BY DEF Sending, Ready, SerdeInv, FormatsInv

LEMMA SendingField ==
    ASSUME Sending, NEW m \in DOMAIN crate.models, NEW f \in EmittedFields(crate.models[m])
    PROVE  LET format == AskedFormatOf(crate, m)
           IN /\ BodyFormat(m) = format /\ FieldSupported(f, format) /\ ~LiteralInCollection(f) /\ f \in FieldTypes(crate)
              /\ HasXmlAddlProps(m) => Params(m, f) = {} /\ SerPath(m, f) = <<"derive">> /\ DePath(m, f) = <<"derive">>
              /\ ~HasXmlAddlProps(m) => /\ Params(m, f) = SerdeParams(f, format, Model(m).visible)
                                        /\ SerPath(m, f) = SerOf(f, format) /\ DePath(m, f) = DeOf(f, format)
<1> DEFINE i == ModuleOf(m)
           x == <<m, f>>
           format == AskedFormatOf(crate, m)
<1>1. Ready /\ TypeInv
  BY SendingTyped
<1>2. i \in 1..Len(crate.modules) /\ x \in Pairs(crate, i)
  BY <1>1, ReadyModule
<1>3. x[1] = m /\ x[2] = f
  OBVIOUS
<1> HIDE DEF x, i
<1>4. x \in AllPairs(crate) /\ Params(m, f) = AttrAt[x] /\ ~LiteralInCollection(f)
  BY <1>1, <1>2, <1>3, ReadyParams
<1>5. /\ FieldSupported(f, format) /\ BodyFormat(m) = format
      /\ AttrAt[x] = IF HasXmlAddlProps(m) THEN {} ELSE SerdeParams(f, format, Model(m).visible)
  BY <1>1, <1>3, <1>4, ReadyField
<1>6. f \in FieldTypes(crate)
  BY <1>1, <1>3, <1>4, PairParts
<1> HIDE DEF format
<1>7. HasXmlAddlProps(m) => Params(m, f) = {} /\ SerPath(m, f) = <<"derive">> /\ DePath(m, f) = <<"derive">>
  <2>1. PathOf({}, "serialize_with") = <<"derive">> /\ PathOf({}, "deserialize_with") = <<"derive">>
    BY DEF PathOf
  <2>2. QED
    BY <1>4, <1>5, <2>1 DEF SerPath, DePath
<1>8. ~HasXmlAddlProps(m) => /\ Params(m, f) = SerdeParams(f, format, Model(m).visible)
                            /\ SerPath(m, f) = SerOf(f, format) /\ DePath(m, f) = DeOf(f, format)
  <2>1. /\ PathOf(SerdeParams(f, format, Model(m).visible), "serialize_with") = SerOf(f, format)
        /\ PathOf(SerdeParams(f, format, Model(m).visible), "deserialize_with") = DeOf(f, format)
    BY <1>5, <1>6, CodecPaths
  <2>2. QED
    BY <1>4, <1>5, <2>1 DEF SerPath, DePath
<1>9. QED
  BY <1>4, <1>5, <1>6, <1>7, <1>8 DEF format

\* The function that writes a field, and the field that it was made for.
LEMMA SendingPath ==
    ASSUME Sending, NEW m \in DOMAIN crate.models, NEW f \in EmittedFields(crate.models[m])
    PROVE  LET format == AskedFormatOf(crate, m)
               path   == SerPath(m, f)
               made   == MadeFor(m, path)
               helper == HasHelper(UnwrapType(f.type))
           IN /\ path[1] = "models_serde" <=> ~HasXmlAddlProps(m) /\ helper /\ InModelsSerde(f, format)
              /\ path[1] = "models_serde" =>
                    /\ made.type.leaf.enc = f.type.leaf.enc /\ (IsLiteral(made.type.leaf) <=> IsLiteral(f.type.leaf))
                    /\ IsLiteral(f.type.leaf) => made.optional = f.optional /\ made.type.leaf.of = f.type.leaf.of
              /\ path[1] = "xml_helpers" <=> ~HasXmlAddlProps(m) /\ ~helper /\ IsWrappedList(f, format)
              /\ path[1] = "xml_helpers" => ItemName(made.type) = ItemName(f.type)
<1> DEFINE i == ModuleOf(m)
           x == <<m, f>>
           format == AskedFormatOf(crate, m)
           path == SerPath(m, f)
           helper == HasHelper(UnwrapType(f.type))
           g == emitted[i].serde[HelperName(f)]
           h == emitted[i].xml[WrapperName(f)]
<1>1. Ready /\ TypeInv /\ SendingSupported(crate) /\ i \in 1..Len(crate.modules) /\ x \in Pairs(crate, i)
  BY SendingTyped, ReadyModule
<1>2. /\ FieldSupported(f, format) /\ ~LiteralInCollection(f) /\ f \in FieldTypes(crate)
      /\ path = IF HasXmlAddlProps(m) THEN <<"derive">> ELSE SerOf(f, format)
  BY SendingField
<1>3. x[1] = m /\ x[2] = f
  OBVIOUS
<1> HIDE DEF x
<1>4. /\ f \in FieldsIn(crate, i)
      /\ helper /\ InModelsSerde(f, format) =>
            /\ g \in FieldTypes(crate) /\ g \in FieldsIn(crate, i) /\ HelperName(g) = HelperName(f) /\ ~LiteralInCollection(g)
      /\ ~helper /\ IsWrappedList(f, format) => h \in FieldTypes(crate) /\ WrapperName(h) = WrapperName(f)
  <2> HIDE DEF i
  <2>1. QED
    BY <1>1, <1>3, ReadyMade
<1>5. \A e \in {<<>>, <<"option">>} : (<<"float">> \o e)[1] = "float"
  OBVIOUS
<1>6. /\ helper /\ InModelsSerde(f, format) => SerOf(f, format)[1] = "models_serde" /\ Tail(SerOf(f, format)) = HelperName(f)
      /\ helper /\ ~InModelsSerde(f, format) => SerOf(f, format)[1] \in {"as_string", "base64", "time"}
      /\ ~helper /\ IsWrappedList(f, format) => SerOf(f, format)[1] = "xml_helpers" /\ Tail(SerOf(f, format)) = WrapperName(f)
      /\ ~helper /\ ~IsWrappedList(f, format) => SerOf(f, format)[1] \in {"float", "derive"}
  BY <1>2, <1>5, HelperPathIs, WrapperPathIs DEF SerOf
<1>7. Helpers(m) = emitted[i]
  BY DEF Helpers
<1>8. CASE HasXmlAddlProps(m)
  <2>1. path[1] = "derive"
    BY <1>2, <1>8
  <2>2. QED
    BY <1>8, <2>1
<1>9. CASE ~HasXmlAddlProps(m)
  <2>1. path = SerOf(f, format)
    BY <1>2, <1>9
  <2> HIDE DEF path, g, h, i
  <2>2. ASSUME helper, InModelsSerde(f, format)
        PROVE  /\ path[1] = "models_serde"
               /\ MadeFor(m, path).type.leaf.enc = f.type.leaf.enc
               /\ IsLiteral(MadeFor(m, path).type.leaf) <=> IsLiteral(f.type.leaf)
               /\ IsLiteral(f.type.leaf) => MadeFor(m, path).optional = f.optional /\ MadeFor(m, path).type.leaf.of = f.type.leaf.of
    <3>1. path[1] = "models_serde" /\ MadeFor(m, path) = g
      BY <1>6, <1>7, <2>1, <2>2 DEF MadeFor, g
    <3>2. g \in FieldTypes(crate) /\ g \in FieldsIn(crate, i) /\ HelperName(g) = HelperName(f) /\ ~LiteralInCollection(g)
      BY <1>4, <2>2
    <3>3. /\ g.type.leaf.enc = f.type.leaf.enc /\ (IsLiteral(g.type.leaf) <=> IsLiteral(f.type.leaf))
          /\ IsLiteral(f.type.leaf) => g.optional = f.optional /\ LiteralName(g) = LiteralName(f)
      BY <1>2, <3>2, HelperTells
    <3>4. i \in DOMAIN crate.modules
      BY <1>1, ModulesTyped
    <3>5. IsLiteral(f.type.leaf) => g.type.leaf.of = f.type.leaf.of
      BY <1>1, <1>4, <3>2, <3>3, <3>4 DEF SendingSupported
    <3>6. QED
      BY <3>1, <3>3, <3>5
  <2>3. ASSUME ~helper, IsWrappedList(f, format)
        PROVE  path[1] = "xml_helpers" /\ ItemName(MadeFor(m, path).type) = ItemName(f.type)
    <3>1. path[1] = "xml_helpers" /\ MadeFor(m, path) = h
      BY <1>6, <1>7, <2>1, <2>3 DEF MadeFor, h
    <3>2. WrapperName(h) = WrapperName(f)
      BY <1>4, <2>3
    <3>3. QED
      BY <3>1, <3>2 DEF WrapperName
  <2>4. QED
    BY <1>6, <1>9, <2>1, <2>2, <2>3 DEF path
<1>10. QED
  BY <1>8, <1>9

LEMMA SendingProperty ==
    ASSUME Sending, NEW m \in DOMAIN crate.models, NEW i \in DOMAIN Model(m).props
    PROVE  LET p      == Model(m).props[i]
               format == AskedFormatOf(crate, m)
           IN /\ PropertySupported(p, format) /\ format \in {"json", "xml"}
              /\ Model(m).base => format = "json" /\ p.name # Model(m).discriminator
              /\ HasXmlAddlProps(m) => format = "xml" /\ PlainlyWritten(p)
              /\ \A q \in Elements(Model(m).props) : p.name = q.name => p = q
<1> DEFINE p == Model(m).props[i]
           format == AskedFormatOf(crate, m)
<1>1. TypeInv /\ Ready /\ SendingSupported(crate)
  BY SendingTyped
<1>2. p \in Elements(Model(m).props)
  BY DEF Elements
<1>3. format \in {"json", "xml"}
  BY DEF AskedFormatOf
<1>4. BodyFormat(m) = format
  BY <1>1, FormatsAsAsked DEF Ready, SerdeInv, AskedFormat
<1>5. HasXmlAddlProps(m) => format = "xml" /\ Model(m).additional
  BY <1>4 DEF HasXmlAddlProps
<1> HIDE DEF p
<1>6. /\ PropertySupported(p, format) /\ (Model(m).base => format = "json" /\ p.name # Model(m).discriminator)
      /\ (format = "xml" /\ Model(m).additional => PlainlyWritten(p))
      /\ \A q \in Elements(Model(m).props) : p.name = q.name => p = q
  BY <1>1, <1>2 DEF SendingSupported, Model
<1>7. QED
  BY <1>3, <1>5, <1>6 DEF p

\* A field is under the wire name of its property, and marked alike.
LEMMA PlaceWritten ==
    ASSUME Sending, NEW m \in DOMAIN crate.models, NEW i \in DOMAIN Model(m).props, Fields(m)[i] \in EmittedFields(crate.models[m])
    PROVE  LET f == Fields(m)[i]
               e == DescribedField(Model(m).props[i], AskedFormatOf(crate, m))
           IN Key(m, f) = e.key /\ Mark(m, f) = e.mark
<1> DEFINE p == Model(m).props[i]
           f == Fields(m)[i]
           format == AskedFormatOf(crate, m)
           text == format = "xml" /\ p.xml = "unwrapped" /\ p.type.wraps = <<>>
<1>1. TypeInv
  BY SendingTyped
<1>2. /\ p \in Properties(crate) /\ f \in FieldTypes(crate) /\ f.name = p.name
      /\ f.serde = (IF p.xmlName # "" THEN p.xmlName ELSE p.wire) /\ f.xmlKind = XMLKind(p)
  BY <1>1, FieldKeeps
<1>3. /\ PropertySupported(p, format) /\ format \in {"json", "xml"}
      /\ HasXmlAddlProps(m) => format = "xml" /\ PlainlyWritten(p)
  BY SendingProperty
<1>4. /\ DescribedField(p, format).key = IF text THEN "" ELSE IF format = "xml" /\ p.xmlName # "" THEN p.xmlName ELSE p.wire
      /\ DescribedField(p, format).mark = IF text THEN "$text" ELSE IF format = "xml" /\ p.xml = "attribute" THEN "@" ELSE ""
  BY DEF DescribedField, Entry
<1>5. p.type \in Types(crate) /\ p.xml \in {"", "attribute", "unwrapped"}
  BY <1>2, PropertyTyped
<1>6. HasXmlAddlProps(m) => Params(m, f) = {}
  BY SendingField
<1>7. ~HasXmlAddlProps(m) => Params(m, f) = SerdeParams(f, format, Model(m).visible)
  BY SendingField
<1> HIDE DEF p, f, format
<1>8. p.xml = "unwrapped" => (text <=> format = "xml" /\ f.xmlKind = "text")
  <2>1. ASSUME p.type.wraps # <<>>
        PROVE  Outer(p.type) # "String"
    <3>1. Outer(p.type) \in Wrappers
      BY <1>5, <2>1, TypeParts, HeadAndTail DEF Outer
    <3>2. QED
      BY <3>1 DEF Wrappers
  <2>2. ASSUME format = "xml", p.xml = "unwrapped", p.type.wraps = <<>>
        PROVE  Outer(p.type) = "String"
    BY <1>3, <2>2 DEF PropertySupported, Outer
  <2>3. p.xml = "unwrapped" => (f.xmlKind = "text" <=> Outer(p.type) = "String")
    BY <1>2 DEF XMLKind
  <2>4. QED
    BY <2>1, <2>2, <2>3
<1>9. /\ f.xmlKind = "text" => p.xml = "unwrapped"
      /\ f.xmlKind = "attribute" <=> p.xml = "attribute"
      /\ format = "json" => p.xml = "" /\ p.xmlName = ""
      /\ f.serde \notin {"@", "$text"}
  BY <1>2, <1>3 DEF XMLKind, PropertySupported
<1>10. text <=> f.xmlKind = "text"
  BY <1>3, <1>8, <1>9
<1>11. KeyFor(f) = DescribedField(p, format).key /\ MarkFor(f) = DescribedField(p, format).mark
  BY <1>2, <1>3, <1>4, <1>9, <1>10 DEF KeyFor, MarkFor
<1>12. CASE HasXmlAddlProps(m)
  <2>1. ~text
    BY <1>3, <1>12 DEF PlainlyWritten
  <2>2. Key(m, f) = f.serde /\ Mark(m, f) = IF f.xmlKind = "attribute" THEN "@" ELSE ""
    BY <1>12 DEF Key, Mark
  <2>3. QED
    BY <1>10, <1>11, <2>1, <2>2 DEF KeyFor, MarkFor, p, f, format
<1>13. CASE ~HasXmlAddlProps(m)
  <2> DEFINE rename == Rename(m, f)
  <2> DEFINE R == {q \in Params(m, f) : q.key = "rename"}
             S == RenameParams(f)
  <2>1. R = S
    BY <1>7, <1>13, OptionsTold
  <2>2. rename = IF RenameParams(f) = {} THEN <<f.name>> ELSE (CHOOSE q \in RenameParams(f) : TRUE).path
    <3>1. rename = IF R = {} THEN <<f.name>> ELSE (CHOOSE q \in R : TRUE).path
      BY DEF Rename
    <3> HIDE DEF R, S, rename
    <3>2. rename = IF S = {} THEN <<f.name>> ELSE (CHOOSE q \in S : TRUE).path
      BY <2>1, <3>1
    <3>3. QED
      BY <3>2 DEF S
  <2>3. /\ Key(m, f) = (IF rename = <<"$text">> THEN "" ELSE Last(rename))
        /\ Mark(m, f) = IF Head(rename) \in {"@", "$text"} THEN Head(rename) ELSE ""
    BY <1>13 DEF Key, Mark
  <2> HIDE DEF rename
  <2>4. Key(m, f) = KeyFor(f) /\ Mark(m, f) = MarkFor(f)
    BY <1>2, <1>9, <2>2, <2>3, PlaceTold
  <2>5. QED
    BY <1>11, <2>4 DEF p, f, format
<1>14. QED
  BY <1>12, <1>13

LEMMA HelperUnboxed ==
    ASSUME NEW c, NEW t \in Types(c)
    PROVE  HasHelper(UnwrapType(t)) <=> HasHelper(t.leaf)
<1>1. CASE Contains(t.wraps, "box")
  <2>1. t.leaf.kind \in {"model", "discriminatedUnion"}
    BY <1>1, TypeParts
  <2>2. ~HasHelper(t.leaf)
    BY <2>1 DEF HasHelper, EncodeAsString
  <2>3. UnwrapType(t).kind = "box"
    BY <1>1 DEF UnwrapType
  <2>4. ~HasHelper(UnwrapType(t))
    BY <2>3 DEF HasHelper, EncodeAsString
  <2>5. QED
    BY <2>2, <2>4
<1>2. CASE ~Contains(t.wraps, "box")
  BY <1>2 DEF UnwrapType
<1>3. QED
  BY <1>1, <1>2

\* A list is written as it is described: wrapped, or its items one by one.
LEMMA ListWritten ==
    ASSUME Sending, NEW m \in DOMAIN crate.models, NEW i \in DOMAIN Model(m).props, Fields(m)[i] \in EmittedFields(crate.models[m])
    PROVE  List(m, Fields(m)[i]) = DescribedField(Model(m).props[i], AskedFormatOf(crate, m)).list
<1> DEFINE p == Model(m).props[i]
           f == Fields(m)[i]
           format == AskedFormatOf(crate, m)
           path == SerPath(m, f)
           vec == Contains(p.type.wraps, "Vec")
<1>1. TypeInv
  BY SendingTyped
<1>2. /\ p \in Properties(crate) /\ f \in FieldTypes(crate) /\ f.type.leaf = p.type.leaf /\ f.xmlKind = XMLKind(p)
  BY <1>1, FieldKeeps
<1>3. /\ PropertySupported(p, format) /\ format \in {"json", "xml"} /\ (Model(m).base => format = "json")
      /\ HasXmlAddlProps(m) => PlainlyWritten(p)
  BY SendingProperty
<1>4. /\ Contains(f.type.wraps, "Vec") <=> vec
      /\ ~Model(m).base /\ (vec => Outer(p.type) = "Vec") => (Outer(UnwrapOption(f.type)) = "Vec" <=> vec)
  BY <1>1, FieldLists
<1>5. BodyFormat(m) = format
  BY SendingField
<1>6. /\ path[1] = "xml_helpers" <=> ~HasXmlAddlProps(m) /\ ~HasHelper(UnwrapType(f.type)) /\ IsWrappedList(f, format)
      /\ path[1] = "xml_helpers" => ItemName(MadeFor(m, path).type) = ItemName(f.type)
  BY SendingPath
<1>7. ItemName(f.type) = ItemName(p.type)
  BY <1>2 DEF ItemName
<1>8. List(m, f) = IF path[1] = "xml_helpers" THEN ItemName(MadeFor(m, path).type)
                   ELSE IF ~Contains(f.type.wraps, "Vec") THEN ""
                   ELSE IF BodyFormat(m) = "xml" THEN "each" ELSE "array"
  BY DEF List, ListOf
<1>9. DescribedField(p, format).list
         = IF ~vec THEN "" ELSE IF format # "xml" THEN "array" ELSE IF p.xml = "unwrapped" THEN "each" ELSE ItemName(p.type)
  BY DEF DescribedField, Entry
<1>10. HasHelper(UnwrapType(f.type)) <=> HasHelper(p.type.leaf)
  BY <1>2, HelperUnboxed DEF FieldTypes
<1> HIDE DEF p, f, format, path, vec
<1>11. CASE format = "json"
  <2>1. path[1] # "xml_helpers"
    BY <1>6, <1>11 DEF IsWrappedList
  <2>2. QED
    BY <1>4, <1>5, <1>8, <1>9, <1>11, <2>1 DEF p, f, format
<1>12. CASE format = "xml" /\ ~vec
  <2>1. path[1] # "xml_helpers"
    BY <1>3, <1>4, <1>6, <1>12 DEF IsWrappedList
  <2>2. QED
    BY <1>4, <1>8, <1>9, <1>12, <2>1 DEF p, f, format
<1>13. CASE format = "xml" /\ vec
  <2>1. Outer(p.type) = "Vec" /\ (p.xml = "unwrapped" \/ ~HasHelper(p.type.leaf))
    BY <1>3, <1>13 DEF PropertySupported, vec
  <2>2. ~HasXmlAddlProps(m) /\ ~Model(m).base
    BY <1>3, <1>13 DEF PlainlyWritten, vec
  <2>3. f.xmlKind = "unwrappedList" <=> p.xml = "unwrapped"
    BY <1>2, <2>1 DEF XMLKind
  <2>4. path[1] = "xml_helpers" <=> p.xml # "unwrapped"
    BY <1>4, <1>6, <1>10, <1>13, <2>1, <2>2, <2>3 DEF IsWrappedList
  <2>5. QED
    BY <1>4, <1>5, <1>6, <1>7, <1>8, <1>9, <1>13, <2>4 DEF p, f, format
<1>14. QED
  BY <1>3, <1>11, <1>12, <1>13

LEMMA DescribedEncoding ==
    ASSUME NEW p, NEW format
    PROVE  DescribedField(p, format).enc = IF p.type.leaf.enc # "" THEN p.type.leaf.enc
                                           ELSE IF p.type.leaf.kind \in {"int", "decimal"} THEN "number"
                                           ELSE IF HasValue(p.type) THEN "given" ELSE p.type.leaf.kind
  BY DEF DescribedField, Entry

\* What helpers and azure_core's functions are for has an encoding.
LEMMA Encoded ==
    ASSUME NEW c, NEW t \in Types(c)
    PROVE  /\ HasHelper(t.leaf) => t.leaf.enc # ""
           /\ ~HasHelper(t.leaf) => t.leaf.enc = "" \/ (t.leaf.kind = "decimal" /\ t.leaf.enc = "string")
           /\ t.leaf.enc \notin {"null", "empty"} /\ t.leaf.kind \notin {"null", "empty"}
<1>1. t.leaf.enc \in Encodings(t.leaf.kind) /\ t.leaf.kind \in Kinds
  BY TypeParts
<1> DEFINE kind == t.leaf.kind
           enc == t.leaf.enc
<1>2. HasHelper(t.leaf) <=> kind \in {"encodedBytes", "literal", "offsetDateTime"} \/ (kind = "int" /\ enc = "string")
  BY DEF HasHelper, EncodeAsString
<1>3. enc \in Encodings(kind) /\ kind \in Kinds
  BY <1>1
<1> HIDE DEF kind, enc
<1>4. CASE kind \in {"int", "decimal"}
  <2>1. enc \in {"", "string"}
    BY <1>3, <1>4 DEF Encodings
  <2>2. QED
    BY <1>2, <1>4, <2>1 DEF kind, enc
<1>5. CASE kind \in {"encodedBytes", "offsetDateTime", "literal"}
  <2>1. enc \notin {"", "null", "empty"}
    BY <1>3, <1>5 DEF Encodings
  <2>2. QED
    BY <1>2, <1>5, <2>1 DEF kind, enc
<1>6. CASE kind \notin {"int", "decimal", "encodedBytes", "offsetDateTime", "literal"}
  <2>1. enc = "" /\ kind \notin {"null", "empty"}
    BY <1>3, <1>6 DEF Encodings, Kinds
  <2>2. QED
    BY <1>2, <1>6, <2>1 DEF kind, enc
<1>7. QED
  BY <1>4, <1>5, <1>6

\* A value is written in its encoding.
LEMMA EncodingWritten ==
    ASSUME Sending, NEW m \in DOMAIN crate.models, NEW i \in DOMAIN Model(m).props, Fields(m)[i] \in EmittedFields(crate.models[m])
    PROVE  LET f   == Fields(m)[i]
               enc == Encoding(m, SerPath(m, f), f)
           IN enc = DescribedField(Model(m).props[i], AskedFormatOf(crate, m)).enc /\ enc \notin {"null", "empty"}
<1> DEFINE p == Model(m).props[i]
           f == Fields(m)[i]
           format == AskedFormatOf(crate, m)
           path == SerPath(m, f)
           leaf == p.type.leaf
           helper == HasHelper(UnwrapType(f.type))
           described == DescribedField(p, format).enc
           enc == Encoding(m, path, f)
<1>1. TypeInv
  BY SendingTyped
<1>2. p \in Properties(crate) /\ f \in FieldTypes(crate) /\ f.type.leaf = leaf
  BY <1>1, FieldKeeps
<1>3. /\ FieldSupported(f, format) /\ ~LiteralInCollection(f)
      /\ path = IF HasXmlAddlProps(m) THEN <<"derive">> ELSE SerOf(f, format)
  BY SendingField
<1>4. HasXmlAddlProps(m) => PlainlyWritten(p)
  BY SendingProperty
<1>5. p.type \in Types(crate) /\ f.type \in Types(crate)
  BY <1>2 DEF Properties, FieldTypes
<1>6. helper <=> HasHelper(leaf)
  BY <1>2, <1>5, HelperUnboxed
<1>7. /\ HasHelper(leaf) => leaf.enc # ""
      /\ ~HasHelper(leaf) => leaf.enc = "" \/ (leaf.kind = "decimal" /\ leaf.enc = "string")
      /\ leaf.enc \notin {"null", "empty"} /\ leaf.kind \notin {"null", "empty"}
  BY <1>5, Encoded
<1>8. described = IF leaf.enc # "" THEN leaf.enc ELSE IF leaf.kind \in {"int", "decimal"} THEN "number"
                  ELSE IF HasValue(p.type) THEN "given" ELSE leaf.kind
  BY DescribedEncoding
<1>9. described \notin {"null", "empty"}
  BY <1>7, <1>8
<1>10. enc = CASE path[1] = "as_string" -> "string"
               [] path[1] = "float" -> "number"
               [] path[1] \in {"base64", "time"} -> path[2]
               [] path[1] = "models_serde" -> MadeFor(m, path).type.leaf.enc
               [] OTHER -> Derived(leaf)
  BY <1>2 DEF Encoding
<1>11. path[1] = "models_serde" => MadeFor(m, path).type.leaf.enc = leaf.enc
  BY <1>2, SendingPath
<1>12. HasValue(p.type) <=> leaf.kind \in {"enum", "untagged"}
  BY DEF HasValue
<1>13. ~HasHelper(leaf) /\ leaf.kind # "decimal" => Derived(leaf) = described
  BY <1>7, <1>8, <1>12 DEF Derived, HasHelper, EncodeAsString
<1>14. leaf.kind = "decimal" /\ leaf.enc = "string" => Derived(leaf) = described
  BY <1>8 DEF Derived
<1> HIDE DEF p, f, format, path, leaf, described, enc
<1>15. CASE HasXmlAddlProps(m)
  <2>1. path[1] = "derive"
    BY <1>3, <1>15
  <2>2. ~HasHelper(leaf) /\ leaf.kind # "decimal"
    BY <1>4, <1>15 DEF PlainlyWritten, HasHelper, EncodeAsString, leaf
  <2>3. enc = Derived(leaf)
    BY <1>10, <2>1
  <2>4. QED
    BY <1>9, <1>13, <2>2, <2>3 DEF described, enc, p, f, format, path
<1>16. CASE ~HasXmlAddlProps(m) /\ helper
  <2>1. path = HelperPath(f, format)
    BY <1>3, <1>16 DEF SerOf
  <2>2. described = leaf.enc
    BY <1>6, <1>7, <1>8, <1>16
  <2>3. CASE InModelsSerde(f, format)
    <3>1. path[1] = "models_serde"
      BY <1>2, <1>3, <1>16, <2>1, <2>3, HelperPathIs
    <3>2. enc = leaf.enc
      BY <1>10, <1>11, <3>1
    <3>3. QED
      BY <1>9, <2>2, <3>2 DEF described, enc, p, f, format, path
  <2>4. CASE ~InModelsSerde(f, format) /\ EncodeAsString(leaf)
    <3>1. path = <<"as_string">> /\ leaf.enc = "string"
      BY <1>2, <2>1, <2>4 DEF HelperPath, EncodeAsString
    <3>2. enc = "string"
      BY <1>10, <3>1
    <3>3. QED
      BY <1>9, <2>2, <3>1, <3>2 DEF described, enc, p, f, format, path
  <2>5. CASE ~InModelsSerde(f, format) /\ ~EncodeAsString(leaf)
    <3>1. \E a \in {"base64", "time"} : path = <<a, leaf.enc>> \o OptionPath(f.type)
      BY <1>2, <1>6, <1>16, <2>1, <2>5 DEF InModelsSerde, HelperPath, IsLiteral
    <3>2. PICK a \in {"base64", "time"} : path = <<a, leaf.enc>> \o OptionPath(f.type)
      BY <3>1
    <3>3. path[1] = a /\ path[2] = leaf.enc
      <4> DEFINE o == OptionPath(f.type)
                 b == leaf.enc
      <4>1. o \in {<<>>, <<"option">>}
        BY DEF OptionPath
      <4>2. path = <<a, b>> \o o
        BY <3>2
      <4> HIDE DEF o, b
      <4>3. QED
        BY <4>1, <4>2, CoreOptions DEF b
    <3>4. enc = leaf.enc
      BY <1>10, <3>3
    <3>5. QED
      BY <1>9, <2>2, <3>4 DEF described, enc, p, f, format, path
  <2>6. QED
    BY <2>3, <2>4, <2>5
<1>17. CASE ~HasXmlAddlProps(m) /\ ~helper
  <2>1. path = IF IsWrappedList(f, format) THEN <<"xml_helpers">> \o WrapperName(f)
               ELSE IF DecimalParams(f) # {} THEN <<"float">> \o (IF Outer(f.type) = "option" THEN <<"option">> ELSE <<>>)
               ELSE <<"derive">>
    BY <1>3, <1>17 DEF SerOf
  <2>2. CASE DecimalParams(f) # {}
    <3>1. ~IsWrappedList(f, format) /\ leaf.kind = "decimal" /\ leaf.enc # "string"
      BY <1>2, <1>3, <2>2, DecimalsPlain DEF DecimalParams
    <3>2. path[1] = "float"
      <4>1. \A o \in {<<>>, <<"option">>} : (<<"float">> \o o)[1] = "float"
        OBVIOUS
      <4>2. QED
        BY <2>1, <2>2, <3>1, <4>1
    <3>3. enc = "number" /\ described = "number"
      BY <1>6, <1>7, <1>8, <1>10, <1>17, <3>1, <3>2
    <3>4. QED
      BY <3>3 DEF described, enc, p, f, format, path
  <2>3. CASE DecimalParams(f) = {}
    <3>1. path[1] \in {"xml_helpers", "derive"}
      BY <2>1, <2>3, WrapperPathIs
    <3>2. enc = Derived(leaf)
      BY <1>10, <3>1
    <3>3. leaf.kind = "decimal" => leaf.enc = "string"
      <4>1. SUFFICES ASSUME leaf.kind = "decimal" PROVE leaf.enc = "string"
        OBVIOUS
      <4>2. UnwrapType(f.type) = f.type.leaf
        <5>1. ~Contains(f.type.wraps, "box")
          BY <1>2, <1>5, <4>1, TypeParts
        <5>2. QED
          BY <5>1 DEF UnwrapType
      <4>3. \A q : {q} # {}
        OBVIOUS
      <4>4. QED
        BY <1>2, <2>3, <4>1, <4>2, <4>3 DEF DecimalParams
    <3>4. described = Derived(leaf)
      BY <1>6, <1>13, <1>14, <1>17, <3>3
    <3>5. QED
      BY <1>9, <3>2, <3>4 DEF described, enc, p, f, format, path
  <2>4. QED
    BY <2>2, <2>3
<1>18. QED
  BY <1>15, <1>16, <1>17

LEMMA PlainIs ==
    ASSUME NEW p, NEW format, NEW values
    PROVE  LET d == DescribedField(p, format)
           IN Plain(d, p, values) = Entry(d.key, d.mark, d.list, d.enc,
                                          IF IsLiteral(p.type.leaf) THEN p.type.leaf.of
                                          ELSE IF p.name \in DOMAIN values THEN values[p.name] ELSE <<>>)
<1> DEFINE d == DescribedField(p, format)
           of == IF p.name \in DOMAIN values THEN values[p.name] ELSE <<>>
<1>1. PICK key, mark, list, enc : d = Entry(key, mark, list, enc, p.type.leaf.of)
  BY DEF DescribedField
<1>2. Plain(d, p, values) = IF IsLiteral(p.type.leaf) THEN d ELSE [d EXCEPT !.of = of]
  BY DEF Plain
<1> HIDE DEF d, of
<1>3. d = [key |-> key, mark |-> mark, list |-> list, enc |-> enc, of |-> p.type.leaf.of]
  BY <1>1 DEF Entry
<1>4. d.key = key /\ d.mark = mark /\ d.list = list /\ d.enc = enc
  BY <1>3
<1>5. [d EXCEPT !.of = of] = Entry(key, mark, list, enc, of)
  BY <1>3 DEF Entry
<1>6. Plain(d, p, values) = Entry(key, mark, list, enc, IF IsLiteral(p.type.leaf) THEN p.type.leaf.of ELSE of)
  BY <1>1, <1>2, <1>5
<1>7. QED
  BY <1>4, <1>6 DEF d, of

\* A field is sent when it is given and may be set, and a required literal is
\* sent anyway, each as it is described; nothing else is sent for it but null.
LEMMA FieldWritten ==
    ASSUME Sending, NEW m \in DOMAIN crate.models, NEW i \in DOMAIN Model(m).props, Fields(m)[i] \in EmittedFields(crate.models[m]),
           NEW given \in BOOLEAN, NEW values,
           ~Model(m).props[i].optional /\ ~Model(m).props[i].readOnly /\ ~IsLiteral(Model(m).props[i].type.leaf) => given,
           Model(m).props[i].name \in DOMAIN values =>
              /\ HasValue(Model(m).props[i].type)
              /\ \E s \in ToSet(Variants(Model(m).props[i].type.leaf)) : values[Model(m).props[i].name] \in ValuesOf(s)
    PROVE  LET p == Model(m).props[i]
           IN {e \in WrittenField(m, Fields(m)[i], given, values) : e.enc # "null"}
                = IF ~p.readOnly /\ (given \/ (IsLiteral(p.type.leaf) /\ ~p.optional))
                  THEN {Plain(DescribedField(p, AskedFormatOf(crate, m)), p, values)} ELSE {}
<1> DEFINE p == Model(m).props[i]
           f == Fields(m)[i]
           format == AskedFormatOf(crate, m)
           path == SerPath(m, f)
           made == MadeFor(m, path)
           d == DescribedField(p, format)
           enc == Encoding(m, path, f)
           literal == path[1] = "models_serde" /\ IsLiteral(made.type.leaf)
           of == IF literal THEN made.type.leaf.of
                 ELSE IF f.name \in DOMAIN values THEN WrittenValue(f.type.leaf, values[f.name]) ELSE <<>>
           skipped == Has(m, f, "skip_serializing") \/ (~given /\ (Has(m, f, "skip_if_none") \/ HasXmlAddlProps(m)))
           null == Entry(Key(m, f), Mark(m, f), "", "null", <<>>)
           entry == Entry(Key(m, f), Mark(m, f), List(m, f), enc, of)
           written == WrittenField(m, f, given, values)
           plain == Plain(d, p, values)
<1>1. TypeInv /\ SendingSupported(crate)
  BY SendingTyped
<1>2. /\ p \in Properties(crate) /\ f \in FieldTypes(crate) /\ f.type.leaf = p.type.leaf /\ f.name = p.name
      /\ f.optional = p.optional /\ f.readOnly = p.readOnly
  BY <1>1, FieldKeeps
<1>3. ~LiteralInCollection(f)
  BY SendingField
<1>4. HasXmlAddlProps(m) => PlainlyWritten(p) /\ Params(m, f) = {}
  BY SendingField, SendingProperty
<1>5. ~HasXmlAddlProps(m) => Params(m, f) = SerdeParams(f, format, Model(m).visible)
  BY SendingField
<1>6. /\ path[1] = "models_serde" <=> ~HasXmlAddlProps(m) /\ HasHelper(UnwrapType(f.type)) /\ InModelsSerde(f, format)
      /\ path[1] = "models_serde" =>
            /\ IsLiteral(made.type.leaf) <=> IsLiteral(f.type.leaf)
            /\ IsLiteral(f.type.leaf) => made.optional = f.optional /\ made.type.leaf.of = f.type.leaf.of
  BY SendingPath
<1>7. Key(m, f) = d.key /\ Mark(m, f) = d.mark /\ List(m, f) = d.list /\ enc = d.enc /\ enc # "null"
  BY PlaceWritten, ListWritten, EncodingWritten
<1>8. p.type \in Types(crate) /\ f.type \in Types(crate)
  BY <1>2 DEF Properties, FieldTypes
<1>9. written = IF skipped THEN {} ELSE IF ~given /\ ~(literal /\ ~made.optional) THEN {null} ELSE {entry}
  BY DEF WrittenField
<1>10. null.enc = "null" /\ entry.enc = enc
  BY DEF Entry
<1>11. plain = Entry(d.key, d.mark, d.list, d.enc,
                     IF IsLiteral(p.type.leaf) THEN p.type.leaf.of ELSE IF p.name \in DOMAIN values THEN values[p.name] ELSE <<>>)
  BY PlainIs
<1>12. p.name \in DOMAIN values => WrittenValue(p.type.leaf, values[p.name]) = values[p.name]
  BY <1>1, <1>8, GivenIsWritten
<1> HIDE DEF p, f, format, path, made, d, enc, written, null, entry, plain
<1>13. literal <=> IsLiteral(p.type.leaf)
  <2>1. ASSUME IsLiteral(p.type.leaf)
        PROVE  path[1] = "models_serde"
    <3>1. HasHelper(UnwrapType(f.type))
      BY <1>2, <1>8, <2>1, HelperUnboxed DEF HasHelper, IsLiteral
    <3>2. InModelsSerde(f, format)
      BY <1>2, <2>1 DEF InModelsSerde, HasHelper, IsLiteral, EncodeAsString
    <3>3. ~HasXmlAddlProps(m)
      BY <1>4, <2>1 DEF PlainlyWritten, IsLiteral
    <3>4. QED
      BY <1>6, <3>1, <3>2, <3>3
  <2>2. QED
    BY <1>2, <1>6, <2>1
<1>14. literal => made.optional = p.optional /\ made.type.leaf.of = p.type.leaf.of
  BY <1>2, <1>6, <1>13
<1>15. of = IF IsLiteral(p.type.leaf) THEN p.type.leaf.of ELSE IF p.name \in DOMAIN values THEN values[p.name] ELSE <<>>
  BY <1>2, <1>12, <1>13, <1>14
<1>16. entry = plain
  BY <1>7, <1>11, <1>15 DEF entry
<1>17. /\ Has(m, f, "skip_serializing") <=> p.readOnly
       /\ IsLiteral(p.type.leaf) /\ ~p.optional => ~Has(m, f, "skip_if_none") /\ ~HasXmlAddlProps(m)
  <2>1. CASE HasXmlAddlProps(m)
    BY <1>4, <2>1 DEF Has, PlainlyWritten, IsLiteral
  <2>2. CASE ~HasXmlAddlProps(m)
    <3> DEFINE skips == Outer(f.type) = "option" /\ (f.optional \/ ~IsLiteral(Inner(f.type).leaf) \/ Len(f.type.wraps) > 1)
    <3>1. /\ Has(m, f, "skip_serializing") <=> f.readOnly
          /\ Has(m, f, "skip_if_none") <=> ~f.readOnly /\ skips
      BY <1>5, <2>2, OptionsTold DEF Has
    <3>2. ASSUME IsLiteral(p.type.leaf), ~p.optional, Outer(f.type) = "option"
          PROVE  ~skips
      <4>1. f.type.wraps \in {<<>>, <<"option">>, <<"ref", "option">>}
        BY <1>2, <1>3, <3>2 DEF LiteralInCollection, Direct
      <4>2. f.type.wraps # <<>> /\ Head(f.type.wraps) = "option"
        BY <1>2, <3>2 DEF Outer, IsLiteral
      <4>3. f.type.wraps = <<"option">>
        BY <4>1, <4>2
      <4>4. Len(<<"option">>) = 1 /\ ~(1 > 1)
        OBVIOUS
      <4>5. Inner(f.type).leaf = f.type.leaf
        <5>1. f.type = [wraps |-> f.type.wraps, leaf |-> f.type.leaf]
          BY <1>8, TypeParts
        <5>2. QED
          BY <5>1 DEF Inner
      <4>6. QED
        BY <1>2, <3>2, <4>3, <4>4, <4>5
    <3>3. QED
      BY <1>2, <2>2, <3>1, <3>2
  <2>3. QED
    BY <2>1, <2>2
<1>18. ~p.optional /\ ~p.readOnly /\ ~IsLiteral(p.type.leaf) => given
  BY DEF p
<1>19. {e \in written : e.enc # "null"}
         = IF ~p.readOnly /\ (given \/ (IsLiteral(p.type.leaf) /\ ~p.optional)) THEN {plain} ELSE {}
  <2>1. CASE p.readOnly
    BY <1>9, <1>17, <2>1
  <2>2. CASE ~p.readOnly /\ (given \/ (IsLiteral(p.type.leaf) /\ ~p.optional))
    <3>1. written = {entry}
      BY <1>9, <1>13, <1>14, <1>17, <2>2
    <3>2. QED
      BY <1>7, <1>10, <1>16, <2>2, <3>1
  <2>3. CASE ~p.readOnly /\ ~given /\ ~(IsLiteral(p.type.leaf) /\ ~p.optional)
    <3>1. written \subseteq {null}
      BY <1>9, <1>13, <1>14, <2>3
    <3>2. QED
      BY <1>10, <2>3, <3>1
  <2>4. QED
    BY <2>1, <2>2, <2>3
<1>20. QED
  BY <1>19 DEF written, plain, p, f, d, format

----------------------------------------------------------------------------
(* What a client sends. *)

LEMMA PropertyOfField ==
    ASSUME Sending, NEW m \in DOMAIN crate.models
    PROVE  /\ DOMAIN Fields(m) = DOMAIN Model(m).props
           /\ \A i \in DOMAIN Model(m).props :
                 /\ Fields(m)[i].name = Model(m).props[i].name
                 /\ Fields(m)[i] \in Emitted(m) <=> Model(m).props[i] \in Props(m)
<1>1. TypeInv
  BY SendingTyped
<1>2. DOMAIN Fields(m) = DOMAIN Model(m).props
  BY <1>1, FieldsTyped
<1>3. ASSUME NEW i \in DOMAIN Model(m).props
      PROVE  /\ Fields(m)[i].name = Model(m).props[i].name
             /\ Fields(m)[i] \in Emitted(m) <=> Model(m).props[i] \in Props(m)
  <2> DEFINE p == Model(m).props[i]
             f == Fields(m)[i]
  <2>1. f.name = p.name /\ p \in Elements(Model(m).props) /\ f \in Elements(Fields(m))
    BY <1>1, FieldKeeps
  <2>2. Model(m).base => p.name # Model(m).discriminator
    BY SendingProperty
  <2> HIDE DEF p, f
  <2>3. (f \in Emitted(m)) <=> f.name # Model(m).discriminator
    BY <2>1 DEF Emitted, EmittedFields, Fields
  <2>4. (p \in Props(m)) <=> (p.name # Model(m).discriminator \/ Model(m).base)
    BY <2>1 DEF Props
  <2>5. QED
    BY <2>1, <2>2, <2>3, <2>4 DEF p, f
<1>4. QED
  BY <1>2, <1>3

LEMMA ModelWritten ==
    ASSUME Sending, NEW m \in DOMAIN crate.models, NEW given, Required(m, "client") \subseteq given,
           NEW values \in Givings({p \in Props(m) : p.name \in given /\ HasValue(p.type)})
    PROVE  {e \in WrittenModel(m, given, values) : e.enc # "null"}
             = Described(m, SentAsDescribed(m, given), values, AskedFormat(m))
<1> DEFINE format == AskedFormatOf(crate, m)
           sent == SentAsDescribed(m, given)
           ps == {p \in Props(m) : p.name \in given /\ HasValue(p.type)}
           I == {i \in DOMAIN Model(m).props : Model(m).props[i] \in Props(m)}
           P(i) == Model(m).props[i]
           F(i) == Fields(m)[i]
           goes(p) == ~p.readOnly /\ (p.name \in given \/ (IsLiteral(p.type.leaf) /\ ~p.optional))
           plain(p) == Plain(DescribedField(p, format), p, values)
           written(f) == {e \in WrittenField(m, f, f.name \in given, values) : e.enc # "null"}
<1>1. TypeInv
  BY SendingTyped
<1>2. \A p \in Props(m) : p.name # "additional_properties"
  <2>1. ASSUME NEW p \in Props(m)
        PROVE  p.name # "additional_properties"
    <3>1. PICK i \in DOMAIN Model(m).props : p = Model(m).props[i]
      BY DEF Props, Elements
    <3>2. QED
      BY <3>1, SendingProperty DEF PropertySupported
  <2>2. QED
    BY <2>1
<1>3. \A p, q \in Props(m) : p.name = q.name => p = q
  <2>1. ASSUME NEW p \in Props(m), NEW q \in Props(m), p.name = q.name
        PROVE  p = q
    <3>1. PICK i \in DOMAIN Model(m).props : p = Model(m).props[i]
      BY DEF Props, Elements
    <3>2. q \in Elements(Model(m).props)
      BY DEF Props
    <3>3. QED
      BY <2>1, <3>1, <3>2, SendingProperty
  <2>2. QED
    BY <2>1
<1>4. ASSUME NEW p \in Props(m)
      PROVE  p.name \in DOMAIN values =>
                HasValue(p.type) /\ \E s \in ToSet(Variants(p.type.leaf)) : values[p.name] \in ValuesOf(s)
  <2> DEFINE OfName(n) == UNION {UNION {ValuesOf(t) : t \in ToSet(Variants(r.type.leaf))} : r \in {q \in ps : q.name = n}}
  <2>1. SUFFICES ASSUME p.name \in DOMAIN values
                 PROVE  HasValue(p.type) /\ \E s \in ToSet(Variants(p.type.leaf)) : values[p.name] \in ValuesOf(s)
    OBVIOUS
  <2>2. DOMAIN values = {q.name : q \in ps} /\ \A n \in {q.name : q \in ps} : values[n] \in OfName(n)
    BY DEF Givings
  <2>3. values[p.name] \in OfName(p.name)
    BY <2>1, <2>2
  <2> HIDE DEF ps
  <2>4. PICK r \in ps : r.name = p.name /\ values[p.name] \in UNION {ValuesOf(t) : t \in ToSet(Variants(r.type.leaf))}
    BY <2>3
  <2>5. r = p /\ HasValue(r.type)
    BY <1>3, <2>4 DEF ps
  <2>6. QED
    BY <2>4, <2>5
<1>5. \A p \in Props(m) : ~p.optional /\ ~p.readOnly /\ ~IsLiteral(p.type.leaf) => p.name \in given
  BY DEF Required
<1>6. ASSUME NEW i \in I
      PROVE  F(i) \in Emitted(m) /\ P(i) \in Props(m) /\ written(F(i)) = IF goes(P(i)) THEN {plain(P(i))} ELSE {}
  <2>1. F(i) \in Emitted(m) /\ F(i).name = P(i).name /\ P(i) \in Props(m) /\ i \in DOMAIN Model(m).props
    BY PropertyOfField
  <2>2. F(i) \in EmittedFields(crate.models[m])
    BY <2>1 DEF Emitted, Model
  <2> DEFINE there == P(i).name \in given
  <2>3. there \in BOOLEAN
    OBVIOUS
  <2>4. ~P(i).optional /\ ~P(i).readOnly /\ ~IsLiteral(P(i).type.leaf) => there
    BY <1>5, <2>1
  <2>5. P(i).name \in DOMAIN values =>
           HasValue(P(i).type) /\ \E s \in ToSet(Variants(P(i).type.leaf)) : values[P(i).name] \in ValuesOf(s)
    BY <1>4, <2>1
  <2> HIDE DEF there
  <2>6. {e \in WrittenField(m, F(i), there, values) : e.enc # "null"}
          = IF ~P(i).readOnly /\ (there \/ (IsLiteral(P(i).type.leaf) /\ ~P(i).optional)) THEN {plain(P(i))} ELSE {}
    BY <2>1, <2>2, <2>3, <2>4, <2>5, FieldWritten
  <2>7. QED
    BY <2>1, <2>6 DEF there
<1>7. Emitted(m) = {F(i) : i \in I}
  <2>1. \A f \in Emitted(m) : \E i \in DOMAIN Model(m).props : f = Fields(m)[i]
    BY PropertyOfField DEF Emitted, EmittedFields, Elements, Fields
  <2>2. QED
    BY <1>6, <2>1, PropertyOfField
<1>8. Props(m) = {P(i) : i \in I}
  BY DEF Props, Elements
<1>9. \A p \in Props(m) : (p.name \in sent) <=> goes(p)
  <2>1. sent = {q.name : q \in {r \in Props(m) : goes(r)}} \cup (given \cap {"additional_properties"})
    BY DEF SentAsDescribed
  <2> HIDE DEF goes, sent
  <2>2. QED
    BY <1>2, <1>3, <2>1
<1>10. ("additional_properties" \in sent) <=> ("additional_properties" \in given)
  BY <1>2 DEF SentAsDescribed
<1>11. Additional(m, sent) = Additional(m, given) /\ \A e \in Additional(m, given) : e.enc # "null"
  <2> DEFINE x == Entry("*", "", "", "any", <<>>)
  <2>1. x.enc # "null"
    BY DEF Entry
  <2> HIDE DEF x, sent
  <2>2. \A S : Additional(m, S) = IF Model(m).additional /\ "additional_properties" \in S THEN {x} ELSE {}
    BY DEF Additional, x
  <2>3. QED
    BY <1>10, <2>1, <2>2
<1>12. {e \in WrittenModel(m, given, values) : e.enc # "null"} = (UNION {written(f) : f \in Emitted(m)}) \cup Additional(m, given)
  BY <1>11 DEF WrittenModel
<1>13. Described(m, sent, values, AskedFormat(m)) = {plain(p) : p \in {q \in Props(m) : q.name \in sent}} \cup Additional(m, sent)
  BY DEF Described, AskedFormat
<1> HIDE DEF written, plain, goes, sent, P, F, I
<1>14. UNION {written(f) : f \in Emitted(m)} = {plain(p) : p \in {q \in Props(m) : q.name \in sent}}
  <2>1. ASSUME NEW e \in UNION {written(f) : f \in Emitted(m)}
        PROVE  e \in {plain(p) : p \in {q \in Props(m) : q.name \in sent}}
    <3>1. PICK i \in I : e \in written(F(i))
      BY <1>7
    <3>2. goes(P(i)) /\ e = plain(P(i)) /\ P(i) \in Props(m)
      BY <1>6, <3>1
    <3>3. QED
      BY <1>9, <3>2
  <2>2. ASSUME NEW p \in Props(m), p.name \in sent
        PROVE  plain(p) \in UNION {written(f) : f \in Emitted(m)}
    <3>1. PICK i \in I : p = P(i)
      BY <1>8
    <3>2. plain(p) \in written(F(i)) /\ F(i) \in Emitted(m)
      BY <1>6, <1>9, <2>2, <3>1
    <3>3. QED
      BY <3>2
  <2>3. QED
    BY <2>1, <2>2
<1>15. {e \in WrittenModel(m, given, values) : e.enc # "null"} = Described(m, sent, values, AskedFormat(m))
  BY <1>11, <1>12, <1>13, <1>14
<1>16. QED
  BY <1>15 DEF sent

\* What has been sent: the names are bound for the sake of the next state.
SentRight ==
    pc = "sent" =>
        \A m, u, given, values, sent, format :
            /\ message.model = m /\ message.union = u /\ message.given = given /\ message.values = values
            /\ sent = SentAsDescribed(m, given) /\ format = AskedFormat(m)
            => /\ {e \in wire.entries : e.enc # "null"} = Described(m, sent, values, format)
               /\ wire.tags = DescribedTags(u, m)

LEMMA SameDescription ==
    ASSUME UNCHANGED crate
    PROVE  \A m, u, given, values, sent, format :
              /\ SentAsDescribed(m, given)' = SentAsDescribed(m, given) /\ AskedFormat(m)' = AskedFormat(m)
              /\ Described(m, sent, values, format)' = Described(m, sent, values, format)
              /\ DescribedTags(u, m)' = DescribedTags(u, m)
<1>1. \A m : Model(m)' = Model(m) /\ AskedFormat(m)' = AskedFormat(m)
  BY DEF Model, AskedFormat
<1>2. \A m : Props(m)' = Props(m) /\ Fields(m)' = Fields(m)
  BY <1>1 DEF Props, Fields
<1>3. \A m : Discriminator(m)' = Discriminator(m)
  BY <1>1, <1>2 DEF Discriminator
<1>4. \A m, given : SentAsDescribed(m, given)' = SentAsDescribed(m, given) /\ Additional(m, given)' = Additional(m, given)
  BY <1>1, <1>2 DEF SentAsDescribed, Additional
<1>5. \A m, sent, values, format : Described(m, sent, values, format)' = Described(m, sent, values, format)
  BY <1>2, <1>4 DEF Described
<1>6. \A u, m : DescribedTags(u, m)' = DescribedTags(u, m)
  BY <1>1, <1>3 DEF DescribedTags
<1>7. QED
  BY <1>1, <1>4, <1>5, <1>6

LEMMA OnlySend == ASSUME [Next]_vars, pc' = "sent" PROVE Send \/ UNCHANGED vars
  BY DEF Next, TakeBody, AddBodyFormat, ConflictingFormats, FormatsDone, EmitModels, NoModels, EmitField, UnexpectedKind, NoUnionMember,
         EmitHelpers, ModelsDone, Answer, Read, Finished, Fail

LEMMA SentStep ==
    ASSUME SerdeInv, ReachedPlainly(crate), HelpersSupported(crate), SendingSupported(crate), SentRight, [Next]_vars
    PROVE  SentRight'
<1>1. SUFFICES ASSUME pc' = "sent" PROVE SentRight'
  BY DEF SentRight
<1>2. UNCHANGED crate
  BY CrateStays
<1>3. CASE UNCHANGED vars
  <2>1. UNCHANGED <<pc, message, wire>>
    BY <1>3 DEF vars, exchange
  <2>2. QED
    BY <1>2, <2>1, SameDescription DEF SentRight
<1>4. CASE Send
  <2>1. Sending
    BY <1>4 DEF Send, Sending, Ready
  <2>2. /\ Message("client")
        /\ wire' = Written(message'.union, message'.model, message'.given, message'.values)
    BY <1>4 DEF Send
  <2>3. PICK m \in DOMAIN crate.models :
           \E given \in SUBSET Names(m), empty \in BOOLEAN, u \in Carriers(m) :
               /\ Required(m, "client") \subseteq given
               /\ \E values \in Givings({p \in Props(m) : p.name \in given /\ HasValue(p.type)}) :
                    message' = [by |-> "client", model |-> m, union |-> u, given |-> given, values |-> values, empty |-> empty]
    BY <2>2 DEF Message
  <2>4. PICK given \in SUBSET Names(m), empty \in BOOLEAN, u \in Carriers(m) :
           /\ Required(m, "client") \subseteq given
           /\ \E values \in Givings({p \in Props(m) : p.name \in given /\ HasValue(p.type)}) :
                message' = [by |-> "client", model |-> m, union |-> u, given |-> given, values |-> values, empty |-> empty]
    BY <2>3
  <2>11. PICK values \in Givings({p \in Props(m) : p.name \in given /\ HasValue(p.type)}) :
           message' = [by |-> "client", model |-> m, union |-> u, given |-> given, values |-> values, empty |-> empty]
    BY <2>4
  <2>5. message'.model = m /\ message'.union = u /\ message'.given = given /\ message'.values = values
    BY <2>11
  <2>6. wire' = Written(u, m, given, values)
    BY <2>2, <2>5
  <2>7. wire'.entries = WrittenModel(m, given, values)
        /\ wire'.tags = IF u = NoUnion \/ m = u.base THEN <<>> ELSE WrittenTags(u, m)
    BY <2>6 DEF Written
  <2>8. {e \in wire'.entries : e.enc # "null"} = Described(m, SentAsDescribed(m, given), values, AskedFormat(m))
    BY <2>1, <2>4, <2>7, <2>11, ModelWritten
  <2>9. wire'.tags = DescribedTags(u, m)
    <3>1. CASE u = NoUnion \/ m = u.base
      BY <2>7, <3>1 DEF DescribedTags
    <3>2. CASE u # NoUnion /\ m # u.base
      BY <2>1, <2>7, <3>2, TagsWritten, SendingTyped
    <3>3. QED
      BY <3>1, <3>2
  <2>10. QED
    BY <1>2, <2>5, <2>8, <2>9, SameDescription DEF SentRight
<1>5. QED
  BY <1>1, <1>3, <1>4, OnlySend

\* Whichever the crate, if its descriptions are among those that the emitter
\* supports and its models, literals and enum values are told apart: what a
\* client sends, whichever the model, the union and the fields that it gives,
\* is what the description says.  Every field that is given and may be set is
\* under its wire name, in its place and with its encoding, required literals
\* are there whatever is given, nothing else is but null, and the tag of a
\* union is there once (emitModels and emitUnions, as serde follows the attributes).
THEOREM SendsWhatIsDescribed ==
    Spec /\ ReachedPlainly(crate) /\ HelpersSupported(crate) /\ SendingSupported(crate) => []SendsAsDescribed
<1> DEFINE Supported == ReachedPlainly(crate) /\ HelpersSupported(crate) /\ SendingSupported(crate)
<1>1. Init => SentRight
  BY DEF Init, SentRight
<1>2. Supported /\ [Next]_vars => Supported'
  BY CrateStays
<1>3. SerdeInv /\ Supported /\ SentRight /\ [Next]_vars => SentRight'
  BY SentStep
<1>4. SentRight => SendsAsDescribed
  BY DEF SentRight, SendsAsDescribed
<1> HIDE DEF Supported
<1>5. Spec /\ Supported => []SendsAsDescribed
  BY <1>1, <1>2, <1>3, <1>4, SerdeInvariant, PTL DEF Spec
<1>6. QED
  BY <1>5 DEF Supported

----------------------------------------------------------------------------
(* What an enum and an untagged union are read as. *)

\* The conversion of an enum reads a text as the variant that was made for it,
\* and a text without one as unknown if the enum is extensible.
LEMMA EnumRead ==
    ASSUME NEW e \in Enums, EnumSupported(e), NEW text,
           e.merged => \A v, w \in ToSet(e.values) : FixUpEnumValueName(v) = FixUpEnumValueName(w) => v.wire = w.wire
    PROVE  LET known == text \in {v.wire : v \in ToSet(e.values)}
           IN /\ known \/ ~e.fixed => /\ FromWire(RustEnum(e), text) = VariantFor(e, text)
                                      /\ FromWire(RustEnum(e), text) # NoVariant
              /\ ~known /\ e.fixed => FromWire(RustEnum(e), text) = NoVariant
<1> DEFINE n == Len(e.values)
           at == {i \in DOMAIN e.values : e.values[i].wire = text}
           k == Min(at)
           r == RustEnum(e)
           known == text \in {v.wire : v \in ToSet(e.values)}
           matching == {v \in ToSet(r.variants) : v.wire = text}
           NameAt(i) == FixUpEnumValueName(e.values[i])
<1>1. n \in Nat /\ DOMAIN e.values = 1..n /\ ToSet(e.values) = {e.values[i] : i \in 1..n}
  BY LenProperties DEF Enums, ToSet
<1>2. \A name, group, id, wireText :
         Variant(name, group, id, wireText).wire = wireText /\ Variant(name, group, id, wireText).name = name
  BY DEF Variant
<1>2a. NoVariant.name = <<>>
  BY DEF NoVariant, Variant
<1>3. /\ e.merged => e.fixed
      /\ \A i \in 1..n : NameAt(i) # <<>>
      /\ \A i, j \in 1..n : e.values[i].wire = e.values[j].wire => IF e.merged THEN NameAt(i) = NameAt(j) ELSE i = j
  BY <1>1 DEF EnumSupported
<1>4. DOMAIN r.variants = 1..n /\ r.extensible = ~e.fixed
  BY <1>1, <1>3 DEF RustEnum, GetEnum, GetMergedFlatEnum, Enums
<1>5. \A i \in 1..n : r.variants[i].wire = e.values[i].wire /\ r.variants[i].name = NameAt(i)
                      /\ (e.merged => r.variants[i] = Variant(NameAt(i), 0, 0, e.values[i].wire))
  <2> SUFFICES ASSUME NEW i \in 1..n
               PROVE  r.variants[i].wire = e.values[i].wire /\ r.variants[i].name = NameAt(i)
                      /\ (e.merged => r.variants[i] = Variant(NameAt(i), 0, 0, e.values[i].wire))
    OBVIOUS
  <2>1. CASE e.merged
    <3> DEFINE first == Min(SameName(e, i))
    <3>1. SameName(e, i) \in SUBSET Nat /\ i \in SameName(e, i)
      BY <1>1 DEF SameName
    <3>2. first \in SameName(e, i)
      BY <3>1, LeastIn
    <3>3. first \in 1..n /\ NameAt(first) = NameAt(i)
      BY <1>1, <3>2 DEF SameName
    <3>4. e.values[first].wire = e.values[i].wire
      BY <1>1, <2>1, <3>3
    <3>5. r.variants[i] = Variant(NameAt(i), 0, 0, e.values[first].wire)
      BY <1>1, <2>1 DEF RustEnum, GetMergedFlatEnum
    <3>6. QED
      BY <1>2, <3>4, <3>5
  <2>2. CASE ~e.merged
    <3>1. \E group, id : r.variants[i] = Variant(NameAt(i), group, id, e.values[i].wire)
      BY <1>1, <2>2 DEF RustEnum, GetEnum
    <3>2. QED
      BY <1>2, <2>2, <3>1
  <2>3. QED
    BY <2>1, <2>2
<1> HIDE DEF r
<1>6. known <=> at # {}
  BY <1>1
<1>7. matching # {} <=> at # {}
  BY <1>1, <1>4, <1>5 DEF ToSet
<1>8. ASSUME at # {}
      PROVE  FromWire(r, text) = VariantFor(e, text) /\ FromWire(r, text) # NoVariant
  <2>1. k \in at /\ k \in 1..n
    <3>1. at \in SUBSET Nat
      BY <1>1
    <3>2. k \in at
      BY <1>8, <3>1, LeastIn
    <3>3. QED
      BY <1>1, <3>2
  <2>2. VariantFor(e, text) = r.variants[k]
    BY <1>8 DEF VariantFor, r
  <2> HIDE DEF k
  <2>3. \A v \in matching : v = r.variants[k]
    <3>1. ASSUME NEW i \in 1..n, r.variants[i].wire = text
          PROVE  r.variants[i] = r.variants[k]
      <4>1. e.values[i].wire = e.values[k].wire
        BY <1>5, <2>1, <3>1
      <4>2. QED
        BY <1>3, <1>5, <2>1, <4>1
    <3>2. QED
      BY <1>4, <3>1 DEF ToSet
  <2>4. FromWire(r, text) = r.variants[k]
    BY <1>7, <1>8, <2>3 DEF FromWire
  <2>5. r.variants[k].name # NoVariant.name
    BY <1>2a, <1>3, <1>5, <2>1
  <2>6. QED
    BY <2>2, <2>4, <2>5
<1>9. ASSUME at = {}
      PROVE  /\ e.fixed => FromWire(r, text) = NoVariant
             /\ ~e.fixed => FromWire(r, text) = VariantFor(e, text) /\ FromWire(r, text) # NoVariant
  <2>1. FromWire(r, text) = IF r.extensible THEN UnknownValue(text) ELSE NoVariant
    BY <1>7, <1>9 DEF FromWire
  <2>2. VariantFor(e, text) = UnknownValue(text)
    BY <1>9 DEF VariantFor
  <2>3. UnknownValue(text).name # NoVariant.name
    BY <1>2a DEF UnknownValue, Variant
  <2>4. e.fixed \in BOOLEAN
    BY DEF Enums
  <2>5. QED
    BY <1>4, <2>1, <2>2, <2>3, <2>4
<1>10. QED
  BY <1>6, <1>8, <1>9 DEF r

\* The variants of an untagged union are all there, those that come first in
\* the order before the others.
LEMMA VariantsSorted ==
    ASSUME NEW S, NEW variants \in Seq(S)
    PROVE  LET sorted == BuildUntaggedUnion(variants)
           IN /\ DOMAIN sorted = 1..Len(variants) /\ Len(variants) \in Nat
              /\ \A k \in DOMAIN sorted : sorted[k] \in ToSet(variants)
              /\ \A t \in ToSet(variants) : \E k \in DOMAIN sorted : sorted[k] = t
              /\ \A k, l \in DOMAIN sorted : k <= l => UntaggedVariantOrder(sorted[k]) <= UntaggedVariantOrder(sorted[l])
<1> DEFINE n == Len(variants)
           I == 1..n
           order(i) == UntaggedVariantOrder(variants[i])
           Before(i, j) == order(i) < order(j) \/ (order(i) = order(j) /\ i < j)
           Below(i) == {j \in I : Before(j, i)}
           rank(i) == Cardinality(Below(i)) + 1
           sorted == [k \in I |-> variants[CHOOSE i \in I : rank(i) = k]]
<1>1. n \in Nat /\ DOMAIN variants = I /\ I \subseteq Nat
  BY LenProperties
<1>2. BuildUntaggedUnion(variants) = sorted
  BY <1>1 DEF BuildUntaggedUnion
<1>3. \A t : UntaggedVariantOrder(t) \in Nat
  BY DEF UntaggedVariantOrder
<1>4. \A i : order(i) \in Nat
  BY <1>3
<1>5. IsFiniteSet(I) /\ Cardinality(I) = n
  BY <1>1, UpToFinite, FS_Interval
<1> HIDE DEF order
<1>6. \A i, j \in I : /\ Before(i, j) \/ Before(j, i) \/ i = j
                      /\ ~(Before(i, j) /\ Before(j, i)) /\ ~Before(i, i)
                      /\ \A l \in I : Before(l, i) /\ Before(i, j) => Before(l, j)
  BY <1>1, <1>4
<1> HIDE DEF Before
<1>7. \A i \in I : Below(i) \in SUBSET I /\ i \notin Below(i)
  BY <1>6
<1>8. \A i, j \in I : Before(i, j) => Below(i) \subseteq Below(j) /\ i \in Below(j)
  BY <1>6
<1> HIDE DEF Below
<1>9. \A i \in I : IsFiniteSet(Below(i)) /\ Cardinality(Below(i)) \in Nat /\ Cardinality(Below(i)) < n
  <2> SUFFICES ASSUME NEW i \in I PROVE IsFiniteSet(Below(i)) /\ Cardinality(Below(i)) \in Nat /\ Cardinality(Below(i)) < n
    OBVIOUS
  <2>1. IsFiniteSet(Below(i)) /\ Cardinality(Below(i)) <= n /\ (n = Cardinality(Below(i)) => I = Below(i))
    BY <1>5, <1>7, FS_Subset
  <2>2. Cardinality(Below(i)) \in Nat
    BY <2>1, FS_CardinalityType
  <2>3. QED
    BY <1>1, <1>7, <2>1, <2>2
<1>10. \A i, j \in I : Before(i, j) => rank(i) < rank(j)
  <2> SUFFICES ASSUME NEW i \in I, NEW j \in I, Before(i, j) PROVE rank(i) < rank(j)
    OBVIOUS
  <2>1. Below(i) \in SUBSET Below(j) /\ Below(i) # Below(j)
    BY <1>7, <1>8
  <2>2. Cardinality(Below(i)) <= Cardinality(Below(j)) /\ Cardinality(Below(i)) # Cardinality(Below(j))
    BY <1>9, <2>1, FS_Subset
  <2>3. QED
    BY <1>9, <2>2
<1>11. \A i \in I : rank(i) \in I
  BY <1>1, <1>9
<1> HIDE DEF rank
<1>12. \A i, j \in I : rank(i) = rank(j) => i = j
  <2>1. \A i, j \in I : rank(i) \in Nat /\ rank(j) \in Nat
    BY <1>1, <1>11
  <2>2. QED
    BY <1>6, <1>10, <2>1
<1>13. \A k \in I : \E i \in I : rank(i) = k
  <2> DEFINE f == [i \in I |-> rank(i)]
  <2>1. f \in Injection(I, I)
    BY <1>11, <1>12 DEF Injection, IsInjective
  <2>2. f \in Surjection(I, I)
    <3> HIDE DEF f, I
    <3>1. QED
      BY <1>5, <2>1, FS_Injection
  <2>3. QED
    BY <2>2 DEF Surjection
<1> DEFINE at(k) == CHOOSE i \in I : rank(i) = k
<1>14. \A k \in I : at(k) \in I /\ rank(at(k)) = k
  BY <1>13
<1>15. \A i \in I : at(rank(i)) = i
  BY <1>11, <1>12, <1>14
<1>16. DOMAIN sorted = I /\ \A k \in I : sorted[k] = variants[at(k)]
  OBVIOUS
<1> HIDE DEF sorted, at, I
<1>17. \A k \in I : sorted[k] \in ToSet(variants)
  BY <1>1, <1>14, <1>16 DEF ToSet
<1>18. ASSUME NEW t \in ToSet(variants)
       PROVE  \E k \in I : sorted[k] = t
  <2>1. PICK i \in I : variants[i] = t
    BY <1>1 DEF ToSet
  <2>2. QED
    BY <1>11, <1>15, <1>16, <2>1
<1>19. ASSUME NEW k \in I, NEW l \in I, k <= l
       PROVE  UntaggedVariantOrder(sorted[k]) <= UntaggedVariantOrder(sorted[l])
  <2>1. ~Before(at(l), at(k))
    <3>1. Before(at(l), at(k)) => l < k
      BY <1>10, <1>14
    <3>2. k \in Nat /\ l \in Nat
      BY <1>1
    <3>3. QED
      BY <1>19, <3>1, <3>2
  <2>2. ~(order(at(l)) < order(at(k)))
    BY <2>1 DEF Before
  <2>3. order(at(k)) <= order(at(l))
    BY <1>4, <2>2
  <2>4. QED
    BY <1>16, <2>3 DEF order
<1>20. QED
  BY <1>1, <1>2, <1>16, <1>17, <1>18, <1>19 DEF I

\* The variants among which a value is read.
LEMMA VariantsTyped ==
    ASSUME TypeInv, ReadingSupported(crate), NEW t \in Types(crate), HasValue(t)
    PROVE  Variants(t.leaf) \in Seq(Types(crate)) /\ UntaggedSupported(crate, Variants(t.leaf))
<1> DEFINE leaf == t.leaf
           v == [wraps |-> <<>>, leaf |-> leaf]
<1>1. IsCrate(crate)
  BY CrateTyped
<1>2. CASE leaf.kind = "enum"
  <2>1. v \in Types(crate)
    <3>1. /\ leaf \in [kind : Kinds, enc : STRING, of : Seq(STRING)] /\ leaf.enc \in Encodings(leaf.kind)
          /\ leaf.of # <<>> /\ leaf.of[1] \in DOMAIN crate.enums
      BY <1>2 DEF Types
    <3>2. v.wraps = <<>> /\ v.leaf = leaf /\ v \in [wraps : Seq(Wrappers), leaf : [kind : Kinds, enc : STRING, of : Seq(STRING)]]
      BY <3>1
    <3> HIDE DEF v
    <3>3. ~Contains(v.wraps, "box")
      BY <3>2 DEF Contains
    <3>4. QED
      BY <1>2, <3>1, <3>2, <3>3 DEF Types
  <2>2. Variants(leaf) = <<v>>
    BY <1>2 DEF Variants
  <2>3. v.leaf = leaf /\ Outer(v) = "enum"
    BY <1>2 DEF Outer
  <2> HIDE DEF v
  <2>4. <<v>> \in Seq(Types(crate)) /\ DOMAIN <<v>> = {1} /\ <<v>>[1] = v
    BY <2>1
  <2>5. ToSet(<<v>>) = {v}
    BY <2>4 DEF ToSet
  <2>6. UntaggedSupported(crate, <<v>>)
    BY <2>3, <2>4, <2>5 DEF UntaggedSupported
  <2>7. QED
    BY <2>2, <2>4, <2>6
<1>3. CASE leaf.kind # "enum"
  <2>1. leaf.kind = "untagged" /\ Variants(leaf) = crate.untagged[leaf.of[1]] /\ leaf.of[1] \in DOMAIN crate.untagged
    BY <1>3, TypeParts DEF HasValue, Variants
  <2>2. UntaggedSupported(crate, crate.untagged[leaf.of[1]])
    BY <2>1 DEF ReadingSupported
  <2>3. crate.untagged[leaf.of[1]] \in Seq(Types(crate))
    BY <1>1, <2>1 DEF IsCrate
  <2>4. QED
    BY <2>1, <2>2, <2>3
<1>4. QED
  BY <1>2, <1>3

\* The Rust enum of a type, and what it reads.
LEMMA EnumTold ==
    ASSUME TypeInv, SendingSupported(crate), ReadingSupported(crate), NEW t \in Types(crate), Outer(t) = "enum"
    PROVE  LET e == Enum(t.leaf)
           IN /\ e \in Enums /\ EnumSupported(e) /\ t.leaf.of[1] \in DOMAIN crate.enums /\ RustEnum(e).type = e.kind
              /\ e.merged => \A v, w \in ToSet(e.values) : FixUpEnumValueName(v) = FixUpEnumValueName(w) => v.wire = w.wire
<1> DEFINE e == Enum(t.leaf)
<1>1. IsCrate(crate)
  BY CrateTyped
<1>2. t.leaf.kind = "enum"
  <2>1. CASE t.wraps = <<>>
    BY <2>1 DEF Outer
  <2>2. CASE t.wraps # <<>>
    <3>1. Outer(t) \in Wrappers
      BY <2>2, TypeParts, HeadAndTail DEF Outer
    <3>2. QED
      BY <3>1 DEF Wrappers
  <2>3. QED
    BY <2>1, <2>2
<1>3. e \in Enums /\ t.leaf.of[1] \in DOMAIN crate.enums /\ e = crate.enums[t.leaf.of[1]]
  BY <1>1, <1>2, TypeParts DEF IsCrate, Enum
<1>4. EnumSupported(e)
  BY <1>3 DEF ReadingSupported
<1>5. e.merged => e.kind = "text" /\ \A v, w \in ToSet(e.values) : FixUpEnumValueName(v) = FixUpEnumValueName(w) => v.wire = w.wire
  BY <1>3 DEF SendingSupported
<1>6. RustEnum(e).type = e.kind
  BY <1>5 DEF RustEnum, GetEnum, GetMergedFlatEnum
<1>7. QED
  BY <1>3, <1>4, <1>5, <1>6

\* The values of each kind of types.
KindOf(t) == CASE Outer(t) = "boolean" -> "boolean"
               [] Outer(t) \in {"int", "float"} -> "number"
               [] Outer(t) = "String" -> "text"
               [] Outer(t) = "Vec" -> "array"
               [] Outer(t) = "model" -> "object"
               [] OTHER -> Enum(t.leaf).kind

\* A set of one pair.
LEMMA OnePair ==
    ASSUME NEW a, NEW b, NEW S, S = {<<a, b>>}
    PROVE  (\A x \in S : x = <<x[1], x[2]>> /\ x[1] = a) /\ \A x, y \in S : x = y
OBVIOUS

LEMMA ValuesTold ==
    ASSUME NEW t, Outer(t) \in {"boolean", "int", "float", "enum", "String", "Vec", "model"}
    PROVE  /\ Outer(t) = "enum" =>
                ValuesOf(t) = {<<Enum(t.leaf).kind, text>> : text \in {v.wire : v \in ToSet(Enum(t.leaf).values)}
                                                                   \cup IF Enum(t.leaf).fixed THEN {} ELSE {Other}}
           /\ \A x \in ValuesOf(t) : x = <<x[1], x[2]>> /\ x[1] = KindOf(t)
           /\ Outer(t) \in {"boolean", "int", "Vec", "model"} => \A x, y \in ValuesOf(t) : x = y
<1>1. CASE Outer(t) = "boolean"
  <2>1. ValuesOf(t) = {<<"boolean", "">>} /\ KindOf(t) = "boolean"
    BY <1>1 DEF ValuesOf, KindOf
  <2>2. QED
    BY <1>1, <2>1, OnePair, Zenon
<1>2. CASE Outer(t) = "int"
  <2>1. ValuesOf(t) = {<<"number", "1">>} /\ KindOf(t) = "number"
    BY <1>2 DEF ValuesOf, KindOf
  <2>2. QED
    BY <1>2, <2>1
<1>3. CASE Outer(t) = "float"
  <2>1. ValuesOf(t) = {<<"number", "1">>, <<"number", "1.5">>} /\ KindOf(t) = "number"
    BY <1>3 DEF ValuesOf, KindOf
  <2>2. QED
    BY <1>3, <2>1
<1>4. CASE Outer(t) = "enum"
  <2>1. ValuesOf(t) = {<<Enum(t.leaf).kind, text>> : text \in {v.wire : v \in ToSet(Enum(t.leaf).values)}
                                                                   \cup IF Enum(t.leaf).fixed THEN {} ELSE {Other}}
        /\ KindOf(t) = Enum(t.leaf).kind
    BY <1>4 DEF ValuesOf, KindOf
  <2> DEFINE kind == Enum(t.leaf).kind
  <2>2. \A x \in ValuesOf(t) : \E text : x = <<kind, text>>
    BY <2>1
  <2>3. \A text : <<kind, text>> = << <<kind, text>>[1], <<kind, text>>[2] >> /\ <<kind, text>>[1] = kind
    OBVIOUS
  <2>4. QED
    BY <1>4, <2>1, <2>2, <2>3
<1>5. CASE Outer(t) = "String"
  <2>1. ValuesOf(t) = (UNION {{<<"text", v.wire>> : v \in ToSet(crate.enums[n].values)} : n \in DOMAIN crate.enums})
                                   \cup {<<"text", Other>>}
        /\ KindOf(t) = "text"
    BY <1>5 DEF ValuesOf, KindOf
  <2>2. \A x \in ValuesOf(t) : \E text : x = <<"text", text>>
    <3>1. ASSUME NEW x \in UNION {{<<"text", v.wire>> : v \in ToSet(crate.enums[n].values)} : n \in DOMAIN crate.enums}
          PROVE  \E text : x = <<"text", text>>
      <4>1. PICK n \in DOMAIN crate.enums : x \in {<<"text", v.wire>> : v \in ToSet(crate.enums[n].values)}
        BY <3>1
      <4>2. QED
        BY <4>1
    <3>2. QED
      BY <2>1, <3>1
  <2>3. QED
    BY <1>5, <2>1, <2>2
<1>6. CASE Outer(t) = "Vec"
  <2>1. ValuesOf(t) = {<<"array", "">>} /\ KindOf(t) = "array"
    BY <1>6 DEF ValuesOf, KindOf
  <2>2. QED
    BY <1>6, <2>1, OnePair, Zenon
<1>7. CASE Outer(t) = "model"
  <2>1. ValuesOf(t) = {<<"object", t.leaf.of[1]>>} /\ KindOf(t) = "object"
    BY <1>7 DEF ValuesOf, KindOf
  <2>2. QED
    BY <1>7, <2>1
<1>8. QED
  BY <1>1, <1>2, <1>3, <1>4, <1>5, <1>6, <1>7

\* Of supported variants, the derived code accepts a value for exactly those
\* that describe it, and reads an enum as it should.
LEMMA AcceptsDescribed ==
    ASSUME TypeInv, SendingSupported(crate), ReadingSupported(crate),
           NEW variants \in Seq(Types(crate)), UntaggedSupported(crate, variants),
           NEW t \in ToSet(variants), NEW s \in ToSet(variants), NEW value \in ValuesOf(s)
    PROVE  /\ Accepts(t, value) <=> value \in ValuesOf(t)
           /\ Outer(t) = "enum" /\ value \in ValuesOf(t) =>
                FromWire(RustEnum(Enum(t.leaf)), value[2]) = VariantFor(Enum(t.leaf), value[2])
<1> DEFINE outers == {Outer(v) : v \in ToSet(variants)}
           e == Enum(t.leaf)
<1>1. t \in Types(crate) /\ s \in Types(crate)
  BY ElementsOfSeq
<1>2. Outer(s) = Outer(t) => s = t
  BY DEF UntaggedSupported, ToSet
<1>3. Outer(t) \in {"boolean", "int", "float", "enum", "String", "Vec", "model"}
      /\ Outer(s) \in {"boolean", "int", "float", "enum", "String", "Vec", "model"} /\ Outer(s) \in outers
  BY DEF UntaggedSupported
<1>3a. /\ \A x \in ValuesOf(t) : x = <<x[1], x[2]>> /\ x[1] = KindOf(t)
       /\ \A x \in ValuesOf(s) : x = <<x[1], x[2]>> /\ x[1] = KindOf(s)
  BY <1>3, ValuesTold
<1>3b. Outer(s) = "enum" => KindOf(s) \in {"text", "number"}
  BY <1>1, EnumTold DEF Enums, KindOf
<1>4. CASE Outer(t) = "enum"
  <2> DEFINE wires == {v.wire : v \in ToSet(e.values)}
             sent == wires \cup IF e.fixed THEN {} ELSE {Other}
  <2>1. /\ e \in Enums /\ EnumSupported(e) /\ RustEnum(e).type = e.kind
        /\ e.merged => \A v, w \in ToSet(e.values) : FixUpEnumValueName(v) = FixUpEnumValueName(w) => v.wire = w.wire
    BY <1>1, <1>4, EnumTold
  <2>2. \A text : /\ text \in wires \/ ~e.fixed => /\ FromWire(RustEnum(e), text) = VariantFor(e, text)
                                                   /\ FromWire(RustEnum(e), text) # NoVariant
                  /\ text \notin wires /\ e.fixed => FromWire(RustEnum(e), text) = NoVariant
    BY <2>1, EnumRead
  <2>3. ValuesOf(t) = {<<e.kind, text>> : text \in sent}
    BY <1>3, <1>4, ValuesTold
  <2>4. Accepts(t, value) <=> value[1] = e.kind /\ FromWire(RustEnum(e), value[2]) # NoVariant
    BY <1>4, <2>1 DEF Accepts
  <2>5. e.kind \in {"text", "number"} /\ e.fixed \in BOOLEAN
    BY <2>1 DEF Enums
  <2>6. IF e.kind = "text" THEN e.fixed \/ "String" \notin outers ELSE "float" \notin outers /\ (e.fixed \/ "int" \notin outers)
    BY <1>4 DEF UntaggedSupported, Enum
  <2>7. ASSUME value \in ValuesOf(t)
        PROVE  Accepts(t, value) /\ FromWire(RustEnum(e), value[2]) = VariantFor(e, value[2])
    <3>1. PICK text \in sent : value = <<e.kind, text>>
      BY <2>3, <2>7
    <3>2. value[1] = e.kind /\ value[2] = text /\ (text \in wires \/ ~e.fixed)
      BY <2>5, <3>1
    <3>3. QED
      BY <2>2, <2>4, <3>2
  <2>8. ASSUME value \notin ValuesOf(t)
        PROVE  ~Accepts(t, value)
    <3>1. Outer(s) # "enum"
      BY <1>2, <1>4, <2>8
    <3>2. CASE value[1] # e.kind
      BY <2>4, <3>2
    <3>3. CASE value[1] = e.kind
      <4>1. Outer(s) \in {"int", "float", "String"}
        BY <1>3, <1>3a, <2>5, <3>1, <3>3 DEF KindOf
      <4>2. e.fixed
        <5>1. CASE e.kind = "text"
          <6>1. Outer(s) = "String"
            BY <1>3a, <3>3, <4>1, <5>1 DEF KindOf
          <6>2. QED
            BY <1>3, <2>6, <5>1, <6>1
        <5>2. CASE e.kind = "number"
          <6>1. Outer(s) \in {"int", "float"}
            BY <1>3a, <3>3, <4>1, <5>2 DEF KindOf
          <6>2. QED
            BY <1>3, <2>6, <5>2, <6>1
        <5>3. QED
          BY <2>5, <5>1, <5>2
      <4>3. value = <<value[1], value[2]>>
        BY <1>3a
      <4>4. value[2] \notin wires
        BY <2>3, <2>8, <3>3, <4>3
      <4>5. QED
        BY <2>2, <2>4, <4>2, <4>4
    <3>4. QED
      BY <3>2, <3>3
  <2>9. QED
    BY <2>7, <2>8
<1>5. CASE Outer(t) = "model"
  <2>1. Accepts(t, value) <=> value[1] = "object"
    BY <1>5 DEF Accepts
  <2>2. value[1] = "object" => Outer(s) = "model"
    BY <1>3, <1>3a, <1>3b DEF KindOf
  <2>3. value \in ValuesOf(t) => value[1] = "object"
    BY <1>3a, <1>5 DEF KindOf
  <2>4. QED
    BY <1>2, <1>5, <2>1, <2>2, <2>3
<1>6. CASE Outer(t) \notin {"enum", "model"}
  BY <1>6 DEF Accepts
<1>7. QED
  BY <1>4, <1>5, <1>6

\* A variant that comes later in the order does not describe less.
LEMMA OrderFits ==
    ASSUME TypeInv, SendingSupported(crate), ReadingSupported(crate),
           NEW variants \in Seq(Types(crate)), UntaggedSupported(crate, variants),
           NEW t \in ToSet(variants), NEW s \in ToSet(variants), NEW value \in ValuesOf(s), value \in ValuesOf(t),
           UntaggedVariantOrder(t) <= UntaggedVariantOrder(s)
    PROVE  ~(ValuesOf(s) \subseteq ValuesOf(t) /\ ValuesOf(s) # ValuesOf(t))
<1> DEFINE outers == {Outer(v) : v \in ToSet(variants)}
           known == {"boolean", "int", "float", "enum", "String", "Vec", "model"}
<1>1. t \in Types(crate) /\ s \in Types(crate)
  BY ElementsOfSeq
<1>2. Outer(s) = Outer(t) => s = t
  BY DEF UntaggedSupported, ToSet
<1>3. Outer(t) \in known /\ Outer(s) \in known /\ Outer(s) \in outers /\ Outer(t) \in outers
  BY DEF UntaggedSupported
<1>4. KindOf(t) = KindOf(s)
  <2>1. \A x \in ValuesOf(t) : x[1] = KindOf(t)
    BY <1>3, ValuesTold
  <2>2. \A x \in ValuesOf(s) : x[1] = KindOf(s)
    BY <1>3, ValuesTold
  <2>3. QED
    BY <2>1, <2>2
<1>5. Outer(s) = "enum" => KindOf(s) \in {"text", "number"}
  BY <1>1, EnumTold DEF Enums, KindOf
<1>6. Outer(t) = "enum" => KindOf(t) \in {"text", "number"}
  BY <1>1, EnumTold DEF Enums, KindOf
<1>7. \A v \in ToSet(variants) : Outer(v) = "enum" =>
         IF Enum(v.leaf).kind = "text" THEN Enum(v.leaf).fixed \/ "String" \notin outers
         ELSE "float" \notin outers /\ (Enum(v.leaf).fixed \/ "int" \notin outers)
  BY DEF UntaggedSupported, Enum
<1>8. CASE Outer(s) = Outer(t)
  BY <1>2, <1>8
<1>9. CASE Outer(t) \in {"boolean", "int", "Vec", "model"}
  <2>1. \A x, y \in ValuesOf(t) : x = y
    BY <1>3, <1>9, ValuesTold
  <2>2. QED
    BY <2>1
<1>10. CASE Outer(t) = "float" /\ Outer(s) # Outer(t)
  <2>1. KindOf(s) = "number" /\ UntaggedVariantOrder(t) = 2
    BY <1>4, <1>10 DEF KindOf, UntaggedVariantOrder
  <2>2. Outer(s) # "int"
    <3>1. Outer(s) = "int" => UntaggedVariantOrder(s) = 1
      BY DEF UntaggedVariantOrder
    <3>2. QED
      BY <2>1, <3>1
  <2>3. Outer(s) = "enum"
    BY <1>3, <1>10, <2>1, <2>2 DEF KindOf
  <2>4. KindOf(s) = Enum(s.leaf).kind
    BY <2>3 DEF KindOf
  <2>5. QED
    BY <1>3, <1>7, <1>10, <2>1, <2>3, <2>4
<1>11. CASE Outer(t) = "enum" /\ Outer(s) # Outer(t)
  <2> DEFINE e == Enum(t.leaf)
  <2>1. UntaggedVariantOrder(t) = 3 /\ KindOf(t) = e.kind
    BY <1>11 DEF UntaggedVariantOrder, KindOf
  <2>2. Outer(s) \in {"String", "Vec", "model"}
    <3>1. Outer(s) \in {"boolean", "int", "float"} => UntaggedVariantOrder(s) \in {0, 1, 2}
      BY DEF UntaggedVariantOrder
    <3>2. \A k \in {0, 1, 2} : ~(3 <= k)
      OBVIOUS
    <3>3. QED
      BY <1>3, <1>11, <2>1, <3>1, <3>2
  <2>3. Outer(s) = "String" /\ e.kind = "text"
    BY <1>4, <1>6, <1>11, <2>1, <2>2 DEF KindOf
  <2>4. e.fixed
    BY <1>3, <1>7, <1>11, <2>3
  <2>5. ValuesOf(t) = {<<"text", text>> : text \in {v.wire : v \in ToSet(e.values)}}
    <3>1. ValuesOf(t) = {<<e.kind, text>> : text \in {v.wire : v \in ToSet(e.values)} \cup IF e.fixed THEN {} ELSE {Other}}
      BY <1>3, <1>11, ValuesTold
    <3>2. QED
      BY <2>3, <2>4, <3>1
  <2>6. \E n \in DOMAIN crate.enums : e = crate.enums[n]
    BY <1>1, <1>11, EnumTold DEF Enum
  <2>7. ValuesOf(s) = (UNION {{<<"text", v.wire>> : v \in ToSet(crate.enums[n].values)} : n \in DOMAIN crate.enums})
                                   \cup {<<"text", Other>>}
    BY <2>3 DEF ValuesOf
  <2> HIDE DEF e
  <2>8. ValuesOf(t) \subseteq ValuesOf(s)
    <3>1. SUFFICES ASSUME NEW x \in ValuesOf(t) PROVE x \in ValuesOf(s)
      OBVIOUS
    <3>2. PICK v \in ToSet(e.values) : x = <<"text", v.wire>>
      BY <2>5, <3>1
    <3>3. PICK n \in DOMAIN crate.enums : e = crate.enums[n]
      BY <2>6
    <3>4. x \in {<<"text", w.wire>> : w \in ToSet(crate.enums[n].values)}
      BY <3>2, <3>3
    <3>5. QED
      BY <2>7, <3>4
  <2>9. QED
    BY <2>8
<1>12. CASE Outer(t) = "String" /\ Outer(s) # Outer(t)
  <2>1. KindOf(s) = "text" /\ UntaggedVariantOrder(t) = 4
    BY <1>4, <1>12 DEF KindOf, UntaggedVariantOrder
  <2>2. Outer(s) = "enum"
    BY <1>3, <1>12, <2>1 DEF KindOf
  <2>3. UntaggedVariantOrder(s) = 3
    BY <2>2 DEF UntaggedVariantOrder
  <2>4. QED
    BY <2>1, <2>3
<1>13. QED
  BY <1>3, <1>8, <1>9, <1>10, <1>11, <1>12

\* A value is read as the narrowest of the variants that describe it, and that
\* of an enum as the variant that stands for it.
LEMMA ValueRead ==
    ASSUME TypeInv, SendingSupported(crate), ReadingSupported(crate), NEW t \in Types(crate), HasValue(t),
           NEW s \in ToSet(Variants(t.leaf)), NEW value \in ValuesOf(s)
    PROVE  LET as == ReadValue(t.leaf, value)
           IN /\ as.type \in Narrowest(Variants(t.leaf), value) /\ as.type # NoType
              /\ Outer(as.type) = "enum" => as.variant = VariantFor(Enum(as.type.leaf), value[2])
<1> DEFINE variants == Variants(t.leaf)
           sorted == BuildUntaggedUnion(variants)
           accepting == {k \in DOMAIN sorted : Accepts(sorted[k], value)}
           first == sorted[Min(accepting)]
           as == ReadValue(t.leaf, value)
<1>1. variants \in Seq(Types(crate)) /\ UntaggedSupported(crate, variants) /\ s \in ToSet(variants)
  BY VariantsTyped
<1>2. as = IF accepting = {} THEN [type |-> NoType, variant |-> NoVariant]
           ELSE [type |-> first,
                 variant |-> IF Outer(first) = "enum" THEN FromWire(RustEnum(Enum(first.leaf)), value[2]) ELSE NoVariant]
  BY DEF ReadValue
<1>3. Narrowest(variants, value)
        = {r \in ToSet(variants) : value \in ValuesOf(r)
             /\ \A q \in {w \in ToSet(variants) : value \in ValuesOf(w)} : ~(ValuesOf(q) \subseteq ValuesOf(r) /\ ValuesOf(q) # ValuesOf(r))}
  BY DEF Narrowest
<1> HIDE DEF variants, as
<1>4. /\ DOMAIN sorted = 1..Len(variants) /\ Len(variants) \in Nat
      /\ \A k \in DOMAIN sorted : sorted[k] \in ToSet(variants)
      /\ \A r \in ToSet(variants) : \E k \in DOMAIN sorted : sorted[k] = r
      /\ \A k, l \in DOMAIN sorted : k <= l => UntaggedVariantOrder(sorted[k]) <= UntaggedVariantOrder(sorted[l])
  BY <1>1, VariantsSorted
<1> HIDE DEF sorted
<1>5. \A k \in DOMAIN sorted : k \in accepting <=> value \in ValuesOf(sorted[k])
  BY <1>1, <1>4, AcceptsDescribed
<1>6. accepting # {} /\ accepting \in SUBSET Nat
  BY <1>1, <1>4, <1>5
<1>7. Min(accepting) \in accepting /\ \A k \in accepting : Min(accepting) <= k
  <2> HIDE DEF accepting
  <2>1. QED
    BY <1>6, LeastIn
<1>8. accepting \subseteq DOMAIN sorted
  OBVIOUS
<1> HIDE DEF accepting
<1>9. first \in ToSet(variants) /\ value \in ValuesOf(first)
  BY <1>4, <1>5, <1>7, <1>8
<1>10. ASSUME NEW q \in ToSet(variants), value \in ValuesOf(q)
       PROVE  ~(ValuesOf(q) \subseteq ValuesOf(first) /\ ValuesOf(q) # ValuesOf(first))
  <2>1. PICK l \in DOMAIN sorted : sorted[l] = q
    BY <1>4
  <2>2. l \in accepting
    BY <1>5, <1>10, <2>1
  <2>3. UntaggedVariantOrder(first) <= UntaggedVariantOrder(q)
    BY <1>4, <1>7, <1>8, <2>1, <2>2
  <2> HIDE DEF first
  <2>4. QED
    BY <1>1, <1>9, <1>10, <2>3, OrderFits
<1>11. first # NoType
  <2>1. first \in Types(crate)
    BY <1>1, <1>9, ElementsOfSeq
  <2>2. first.leaf.kind \in Kinds
    BY <2>1, TypeParts
  <2>3. NoType.leaf.kind = "" /\ "" \notin Kinds
    BY DEF NoType, Type, Kinds
  <2>4. QED
    BY <2>2, <2>3
<1>12. Outer(first) = "enum" => FromWire(RustEnum(Enum(first.leaf)), value[2]) = VariantFor(Enum(first.leaf), value[2])
  <2> HIDE DEF first
  <2>1. QED
    BY <1>1, <1>9, AcceptsDescribed
<1> HIDE DEF first
<1>13. as = [type |-> first,
             variant |-> IF Outer(first) = "enum" THEN FromWire(RustEnum(Enum(first.leaf)), value[2]) ELSE NoVariant]
  BY <1>2, <1>6 DEF first
<1>14. as.type = first /\ (Outer(first) = "enum" => as.variant = VariantFor(Enum(first.leaf), value[2]))
  BY <1>12, <1>13
<1>15. first \in Narrowest(variants, value)
  BY <1>3, <1>9, <1>10
<1>16. QED
  BY <1>11, <1>14, <1>15 DEF as, variants

----------------------------------------------------------------------------
(* How a field is read. *)

Reading == Ready /\ SendingSupported(crate) /\ ReadingSupported(crate)

LEMMA ReadingTyped ==
    ASSUME Reading
    PROVE  Sending /\ Ready /\ TypeInv /\ SendingSupported(crate) /\ ReadingSupported(crate)
  BY DEF Reading, Sending, Ready, SerdeInv, FormatsInv

LEMMA ReadingProperty ==
    ASSUME Reading, NEW m \in DOMAIN crate.models, NEW i \in DOMAIN Model(m).props
    PROVE  LET p      == Model(m).props[i]
               format == AskedFormatOf(crate, m)
           IN /\ \A q \in Elements(Model(m).props) : Place(p, format) = Place(q, format) => p = q
              /\ "*" \notin {p.wire, p.xmlName}
              /\ p.optional => OptionalSupported(p) /\ (p.pageItems => Model(m).visible /\ ~HasXmlAddlProps(m))
              /\ p.emptyAsNull => /\ p.type.wraps = <<>> /\ ~HasHelper(p.type.leaf) /\ p.deserializeWith = ""
                                  /\ ~Model(m).base /\ ~HasXmlAddlProps(m)
              /\ Model(m).base => p.wire = p.name /\ p.type.leaf.enc = "" /\ p.type.leaf.kind # "decimal"
<1> DEFINE p == Model(m).props[i]
           format == AskedFormatOf(crate, m)
<1>1. ReadingSupported(crate) /\ Ready
  BY ReadingTyped
<1>2. p \in Elements(Model(m).props)
  BY DEF Elements
<1>3. BodyFormat(m) = format
  BY <1>1, FormatsAsAsked DEF Ready, SerdeInv, AskedFormat
<1>4. HasXmlAddlProps(m) => format = "xml" /\ Model(m).additional
  BY <1>3 DEF HasXmlAddlProps
<1> HIDE DEF p
<1>5. /\ \A q \in Elements(Model(m).props) : Place(p, format) = Place(q, format) => p = q
      /\ "*" \notin {p.wire, p.xmlName}
      /\ p.optional => OptionalSupported(p) /\ (p.pageItems => Model(m).visible /\ ~(format = "xml" /\ Model(m).additional))
      /\ p.emptyAsNull => /\ p.type.wraps = <<>> /\ ~HasHelper(p.type.leaf) /\ p.deserializeWith = ""
                          /\ ~Model(m).base /\ ~(format = "xml" /\ Model(m).additional)
      /\ Model(m).base => p.wire = p.name /\ p.type.leaf.enc = "" /\ p.type.leaf.kind # "decimal"
  <2> DEFINE model == crate.models[m]
  <2>1. Model(m) = model
    BY DEF Model
  <2> HIDE DEF model
  <2>2. \A k, q \in Elements(model.props) : Place(k, format) = Place(q, format) => k = q
    BY <1>1 DEF ReadingSupported, model
  <2>3. \A k \in Elements(model.props) : ReadingOf(k, model, format = "xml" /\ model.additional)
    BY <1>1 DEF ReadingSupported, model
  <2> HIDE DEF format
  <2>4. ReadingOf(p, model, format = "xml" /\ model.additional) /\ \A q \in Elements(model.props) : Place(p, format) = Place(q, format) => p = q
    BY <1>2, <2>1, <2>2, <2>3
  <2>5. QED
    BY <2>1, <2>4 DEF ReadingOf
<1>6. QED
  BY <1>4, <1>5 DEF p

\* The function that reads a field is the one that writes it, but that custom
\* ones, literals and empty strings are read apart.
LEMMA ReadingPath ==
    ASSUME Reading, NEW m \in DOMAIN crate.models, NEW i \in DOMAIN Model(m).props, Fields(m)[i] \in EmittedFields(crate.models[m])
    PROVE  LET p == Model(m).props[i]
               f == Fields(m)[i]
               d == DePath(m, f)
               s == SerPath(m, f)
           IN /\ \/ d = <<"custom">>
                 \/ d = s /\ ~p.emptyAsNull
                 \/ d = <<"derive">> /\ IsLiteral(p.type.leaf) /\ s[1] # "xml_helpers" /\ ~p.emptyAsNull
                 \/ d = <<"empty_as_null">> /\ s = <<"derive">>
              /\ p.emptyAsNull => d = <<"empty_as_null">>
<1> DEFINE p == Model(m).props[i]
           f == Fields(m)[i]
           format == AskedFormatOf(crate, m)
           d == DePath(m, f)
           s == SerPath(m, f)
           leaf == UnwrapType(f.type)
<1>1. Sending /\ TypeInv
  BY ReadingTyped
<1>2. /\ p \in Properties(crate) /\ f \in FieldTypes(crate) /\ f.type.leaf = p.type.leaf
      /\ f.emptyAsNull = p.emptyAsNull /\ f.deserializeWith = p.deserializeWith
  BY <1>1, FieldKeeps
<1>3. /\ FieldSupported(f, format)
      /\ HasXmlAddlProps(m) => s = <<"derive">> /\ d = <<"derive">>
      /\ ~HasXmlAddlProps(m) => s = SerOf(f, format) /\ d = DeOf(f, format)
  BY <1>1, SendingField
<1>4. p.emptyAsNull => /\ p.type.wraps = <<>> /\ ~HasHelper(p.type.leaf) /\ p.deserializeWith = ""
                       /\ ~Model(m).base /\ ~HasXmlAddlProps(m)
  BY ReadingProperty
<1>5. HasHelper(leaf) <=> HasHelper(p.type.leaf)
  BY <1>2, HelperUnboxed DEF FieldTypes
<1>6. p.emptyAsNull => ~IsWrappedList(f, format) /\ ~Custom(f)
  <2>1. SUFFICES ASSUME p.emptyAsNull PROVE ~IsWrappedList(f, format) /\ ~Custom(f)
    OBVIOUS
  <2>2. ~Contains(p.type.wraps, "Vec")
    <3>1. ~Contains(<<>>, "Vec")
      BY DEF Contains
    <3>2. QED
      BY <1>4, <2>1, <3>1
  <2>3. Outer(UnwrapOption(f.type)) # "Vec"
    BY <1>1, <1>4, <2>1, <2>2, FieldLists
  <2>4. QED
    BY <1>2, <1>4, <2>1, <2>3 DEF IsWrappedList, Custom
<1>7. IsLiteral(leaf) => IsLiteral(p.type.leaf)
  BY <1>2 DEF IsLiteral, UnwrapType
<1>8. s[1] = "xml_helpers" => ~HasHelper(leaf)
  BY <1>1, SendingPath
<1>9. ~HasHelper(leaf) /\ ~IsWrappedList(f, format) /\ p.emptyAsNull => SerOf(f, format) = <<"derive">>
  BY <1>2, <1>3, DecimalsPlain DEF SerOf
<1> HIDE DEF p, f, format, d, s, leaf
<1>10. CASE HasXmlAddlProps(m)
  BY <1>3, <1>4, <1>10 DEF p, f, d, s
<1>11. CASE ~HasXmlAddlProps(m)
  <2>1. d = DeOf(f, format) /\ s = SerOf(f, format)
    BY <1>3, <1>11
  <2>2. CASE Custom(f)
    <3>1. d = <<"custom">>
      BY <2>1, <2>2 DEF DeOf
    <3>2. QED
      BY <1>6, <2>2, <3>1 DEF p, f, d, s
  <2>3. CASE ~Custom(f) /\ HasHelper(leaf) /\ Direct(f.type) /\ IsLiteral(leaf)
    <3>1. d = <<"derive">>
      BY <2>1, <2>3 DEF DeOf, leaf
    <3>2. QED
      BY <1>4, <1>5, <1>7, <1>8, <2>3, <3>1 DEF p, f, d, s
  <2>4. CASE /\ ~Custom(f) /\ ~(HasHelper(leaf) /\ Direct(f.type) /\ IsLiteral(leaf))
             /\ HasHelper(leaf) \/ IsWrappedList(f, format) \/ ~p.emptyAsNull
    <3>1. d = s
      BY <1>2, <2>1, <2>4 DEF DeOf, leaf
    <3>2. ~p.emptyAsNull
      BY <1>4, <1>5, <1>6, <2>4
    <3>3. QED
      BY <3>1, <3>2 DEF p, f, d, s
  <2>5. CASE ~Custom(f) /\ ~HasHelper(leaf) /\ ~IsWrappedList(f, format) /\ p.emptyAsNull
    <3>1. d = <<"empty_as_null">>
      BY <1>2, <2>1, <2>5 DEF DeOf, leaf
    <3>2. s = <<"derive">>
      BY <1>9, <2>1, <2>5
    <3>3. QED
      BY <3>1, <3>2 DEF p, f, d, s
  <2>6. QED
    BY <2>2, <2>3, <2>4, <2>5
<1>12. QED
  BY <1>10, <1>11

\* A service may send an empty string for a property that is read as null then.
Sent(e, p, empty) == IF empty /\ p.emptyAsNull THEN [e EXCEPT !.enc = "empty"] ELSE e

SentFor(p, format, values, empty) == Sent(Plain(DescribedField(p, format), p, values), p, empty)

LEMMA SentIs ==
    ASSUME NEW p, NEW format, NEW values, NEW empty
    PROVE  LET d == DescribedField(p, format)
               e == SentFor(p, format, values, empty)
           IN /\ e.key = d.key /\ e.mark = d.mark /\ e.list = d.list /\ e.enc = IF empty /\ p.emptyAsNull THEN "empty" ELSE d.enc
              /\ e.of = IF IsLiteral(p.type.leaf) THEN p.type.leaf.of ELSE IF p.name \in DOMAIN values THEN values[p.name] ELSE <<>>
<1> DEFINE d == DescribedField(p, format)
           of == IF IsLiteral(p.type.leaf) THEN p.type.leaf.of ELSE IF p.name \in DOMAIN values THEN values[p.name] ELSE <<>>
           plain == Plain(d, p, values)
<1>1. plain = Entry(d.key, d.mark, d.list, d.enc, of)
  BY PlainIs
<1>2. SentFor(p, format, values, empty) = IF empty /\ p.emptyAsNull THEN [plain EXCEPT !.enc = "empty"] ELSE plain
  BY DEF SentFor, Sent
<1> HIDE DEF d, of, plain
<1>3. plain = [key |-> d.key, mark |-> d.mark, list |-> d.list, enc |-> d.enc, of |-> of]
  BY <1>1 DEF Entry
<1>4. QED
  BY <1>2, <1>3 DEF d, of

\* What is sent for a property is understood.
LEMMA FieldUnderstood ==
    ASSUME Reading, NEW m \in DOMAIN crate.models, NEW i \in DOMAIN Model(m).props, Fields(m)[i] \in EmittedFields(crate.models[m]),
           NEW values, NEW empty \in BOOLEAN,
           HasValue(Model(m).props[i].type) =>
              /\ Model(m).props[i].name \in DOMAIN values
              /\ \E s \in ToSet(Variants(Model(m).props[i].type.leaf)) : values[Model(m).props[i].name] \in ValuesOf(s)
    PROVE  LET p == Model(m).props[i]
           IN Understood(m, Fields(m)[i], SentFor(p, AskedFormatOf(crate, m), values, empty))
                = IF empty /\ p.emptyAsNull THEN "none" ELSE "value"
<1> DEFINE p == Model(m).props[i]
           f == Fields(m)[i]
           format == AskedFormatOf(crate, m)
           d == DescribedField(p, format)
           e == SentFor(p, format, values, empty)
           path == DePath(m, f)
           ser == SerPath(m, f)
           list == ReadList(m, f)
           enc == Encoding(m, path, f)
<1>1. Sending /\ TypeInv /\ SendingSupported(crate) /\ ReadingSupported(crate)
  BY ReadingTyped
<1>2. p \in Properties(crate) /\ f.type.leaf = p.type.leaf /\ p.emptyAsNull \in BOOLEAN /\ p.type \in Types(crate)
  BY <1>1, FieldKeeps, PropertyTyped
<1>3. /\ \/ path = <<"custom">>
         \/ path = ser /\ ~p.emptyAsNull
         \/ path = <<"derive">> /\ IsLiteral(p.type.leaf) /\ ser[1] # "xml_helpers" /\ ~p.emptyAsNull
         \/ path = <<"empty_as_null">> /\ ser = <<"derive">>
      /\ p.emptyAsNull => path = <<"empty_as_null">>
  BY ReadingPath
<1>4. /\ e.list = d.list /\ e.enc = IF empty /\ p.emptyAsNull THEN "empty" ELSE d.enc
      /\ HasValue(p.type) => e.of = values[p.name]
  <2>1. HasValue(p.type) => ~IsLiteral(p.type.leaf)
    BY DEF HasValue, IsLiteral
  <2>2. QED
    BY <2>1, SentIs
<1>5. List(m, f) = d.list /\ Encoding(m, ser, f) = d.enc /\ d.enc # "empty"
  BY <1>1, ListWritten, EncodingWritten
<1>6. HasValue(p.type) => ReadValue(f.type.leaf, e.of).type # NoType
  BY <1>1, <1>2, <1>4, ValueRead
<1>7. HasValue(f.type) <=> HasValue(p.type)
  BY <1>2 DEF HasValue
<1>8. Understood(m, f, e) = IF path[1] = "custom" THEN "value"
                            ELSE IF e.enc = "empty" THEN (IF path[1] = "empty_as_null" THEN "none" ELSE "error")
                            ELSE IF /\ e.list = list
                                    /\ ~HasValue(f.type) \/ ReadValue(f.type.leaf, e.of).type # NoType
                                    /\ enc \in {e.enc, "given"}
                            THEN "value" ELSE "error"
  BY DEF Understood
<1>9. /\ list = IF path[1] = "xml_helpers" THEN ItemName(MadeFor(m, path).type)
                ELSE IF ~Contains(f.type.wraps, "Vec") THEN ""
                ELSE IF BodyFormat(m) = "xml" THEN "each" ELSE "array"
      /\ List(m, f) = IF ser[1] = "xml_helpers" THEN ItemName(MadeFor(m, ser).type)
                      ELSE IF ~Contains(f.type.wraps, "Vec") THEN ""
                      ELSE IF BodyFormat(m) = "xml" THEN "each" ELSE "array"
  BY DEF ReadList, List, ListOf
<1>10. path[1] \in {"derive", "empty_as_null"} => enc = Derived(p.type.leaf)
  BY <1>2 DEF Encoding
<1>11. ser = <<"derive">> => Encoding(m, ser, f) = Derived(p.type.leaf)
  BY <1>2 DEF Encoding
<1>12. IsLiteral(p.type.leaf) => Derived(p.type.leaf) = "given"
  BY DEF Derived, IsLiteral
<1> HIDE DEF p, f, format, d, e, path, ser, list, enc
<1>13. CASE path = <<"custom">>
  <2>1. path[1] = "custom" /\ ~p.emptyAsNull
    BY <1>3, <1>13
  <2>2. QED
    BY <1>8, <2>1 DEF p, f, format, e
<1>14. CASE path = ser /\ ~p.emptyAsNull
  <2>1. list = d.list /\ enc = d.enc
    BY <1>5, <1>9, <1>14 DEF enc
  <2>2. QED
    BY <1>4, <1>5, <1>6, <1>7, <1>8, <1>14, <2>1 DEF p, f, format, e
<1>15. CASE path = <<"derive">> /\ IsLiteral(p.type.leaf) /\ ser[1] # "xml_helpers" /\ ~p.emptyAsNull
  <2>1. list = d.list /\ enc = "given"
    BY <1>5, <1>9, <1>10, <1>12, <1>15
  <2>2. QED
    BY <1>4, <1>5, <1>6, <1>7, <1>8, <1>15, <2>1 DEF p, f, format, e
<1>16. CASE path = <<"empty_as_null">> /\ ser = <<"derive">>
  <2>1. path[1] = "empty_as_null" /\ ser[1] = "derive"
    BY <1>16
  <2>2. list = d.list /\ enc = d.enc
    BY <1>5, <1>9, <1>10, <1>11, <1>16, <2>1
  <2>3. QED
    BY <1>4, <1>5, <1>6, <1>7, <1>8, <2>1, <2>2 DEF p, f, format, e
<1>17. QED
  BY <1>3, <1>13, <1>14, <1>15, <1>16

LEMMA DefaultsTold ==
    ASSUME NEW f, NEW format, NEW visible,
           LET leaf == UnwrapType(f.type)
           IN \/ visible /\ Outer(f.type) # "option"
              \/ HasHelper(leaf) /\ ~EncodeAsString(leaf) /\ ~(Direct(f.type) /\ IsLiteral(leaf))
              \/ ~HasHelper(leaf) /\ IsWrappedList(f, format)
    PROVE  \E q \in SerdeParams(f, format, visible) : q.key = "default"
<1> DEFINE leaf == UnwrapType(f.type)
           x == Param("default", <<>>)
<1>1. x.key = "default" /\ Default = {x}
  BY DEF Param, Default
<1> HIDE DEF x
<1>2. x \in CodecParams(f, format) \cup DefaultParams(f, visible)
  <2>1. CASE visible /\ Outer(f.type) # "option"
    BY <1>1, <2>1 DEF DefaultParams
  <2>2. CASE HasHelper(leaf) /\ ~EncodeAsString(leaf) /\ ~(Direct(f.type) /\ IsLiteral(leaf))
    <3>1. CodecParams(f, format) = WithParams(f, HelperPath(f, format)) \cup Default
      BY <2>2 DEF CodecParams
    <3>2. QED
      BY <1>1, <3>1
  <2>3. CASE ~HasHelper(leaf) /\ IsWrappedList(f, format)
    <3>1. CodecParams(f, format) = WithParams(f, <<"xml_helpers">> \o WrapperName(f)) \cup Default
      BY <2>3 DEF CodecParams
    <3>2. QED
      BY <1>1, <3>1
  <2>4. QED
    BY <2>1, <2>2, <2>3
<1>3. QED
  BY <1>1, <1>2 DEF SerdeParams

\* A property that need not be sent may be missing.
LEMMA MissingRead ==
    ASSUME Reading, NEW m \in DOMAIN crate.models, NEW i \in DOMAIN Model(m).props, Fields(m)[i] \in EmittedFields(crate.models[m]),
           Model(m).props[i].optional, ~Model(m).base
    PROVE  MissingField(m, Fields(m)[i]) = "none"
<1> DEFINE p == Model(m).props[i]
           f == Fields(m)[i]
           format == AskedFormatOf(crate, m)
           path == DePath(m, f)
           leaf == UnwrapType(f.type)
<1>1. Sending /\ TypeInv
  BY ReadingTyped
<1>2. /\ p \in Properties(crate) /\ f \in FieldTypes(crate) /\ f.type.leaf = p.type.leaf
      /\ f.emptyAsNull = p.emptyAsNull /\ f.deserializeWith = p.deserializeWith
      /\ f.type.wraps = IF (NotSpreadOnly(Model(m).usage) \/ p.optional) /\ ~p.pageItems
                        THEN <<"option">> \o p.type.wraps ELSE p.type.wraps
  BY <1>1, FieldKeeps
<1>3. /\ HasXmlAddlProps(m) => path = <<"derive">>
      /\ ~HasXmlAddlProps(m) => Params(m, f) = SerdeParams(f, format, Model(m).visible) /\ path = DeOf(f, format)
  BY <1>1, SendingField
<1>4. OptionalSupported(p) /\ (p.pageItems => Model(m).visible /\ ~HasXmlAddlProps(m))
  BY ReadingProperty
<1>5. /\ ~p.emptyAsNull /\ ~EncodeAsString(p.type.leaf) /\ ~(p.type.leaf.kind = "decimal" /\ p.type.leaf.enc # "string")
      /\ p.deserializeWith # "" => HasHelper(p.type.leaf) /\ ~IsLiteral(p.type.leaf)
  BY <1>4 DEF OptionalSupported
<1>6. /\ HasHelper(leaf) <=> HasHelper(p.type.leaf)
      /\ leaf = p.type.leaf \/ (leaf.kind = "box" /\ leaf.enc = "")
  BY <1>2, HelperUnboxed DEF FieldTypes, UnwrapType
<1>7. ~p.pageItems => Outer(f.type) = "option"
  <2> DEFINE w == p.type.wraps
             s == <<"option">> \o w
  <2>1. SUFFICES ASSUME ~p.pageItems PROVE Outer(f.type) = "option"
    OBVIOUS
  <2>2. w \in Seq(Wrappers) /\ "option" \in Wrappers
    BY <1>2, TypeParts, PropertyTyped DEF Wrappers
  <2>3. f.type.wraps = s
    BY <1>2, <2>1
  <2> HIDE DEF w
  <2>4. s \in Seq(Wrappers) /\ s[1] = "option" /\ s # <<>>
    BY <2>2, Prefixed
  <2> HIDE DEF s
  <2>5. Head(s) = "option"
    BY <2>4, HeadAndTail
  <2>6. QED
    BY <2>3, <2>4, <2>5 DEF Outer
<1>8. MissingField(m, f) = IF Has(m, f, "default") THEN "none" ELSE IF path[1] = "derive" /\ Outer(f.type) = "option" THEN "none" ELSE "error"
  BY DEF MissingField
<1> HIDE DEF p, f, format, path, leaf
<1>9. CASE HasXmlAddlProps(m)
  BY <1>3, <1>4, <1>7, <1>8, <1>9 DEF f
<1>10. CASE ~HasXmlAddlProps(m) /\ Has(m, f, "default")
  BY <1>8, <1>10 DEF f
<1>11. CASE ~HasXmlAddlProps(m) /\ ~Has(m, f, "default")
  <2>1. /\ ~(Model(m).visible /\ Outer(f.type) # "option")
        /\ ~(HasHelper(leaf) /\ ~EncodeAsString(leaf) /\ ~(Direct(f.type) /\ IsLiteral(leaf)))
        /\ ~(~HasHelper(leaf) /\ IsWrappedList(f, format))
    BY <1>3, <1>11, DefaultsTold DEF Has, leaf
  <2>2. Outer(f.type) = "option"
    BY <1>4, <1>7, <2>1
  <2>3. ~EncodeAsString(leaf)
    BY <1>5, <1>6 DEF EncodeAsString
  <2>4. DeOf(f, format) = <<"derive">>
    <3>1. CASE HasHelper(leaf)
      <4>1. Direct(f.type) /\ IsLiteral(leaf)
        BY <2>1, <2>3, <3>1
      <4>2. IsLiteral(p.type.leaf)
        BY <1>6, <4>1 DEF IsLiteral
      <4>3. ~Custom(f)
        BY <1>2, <1>5, <4>2 DEF Custom
      <4>4. QED
        BY <3>1, <4>1, <4>3 DEF DeOf, leaf
    <3>2. CASE ~HasHelper(leaf)
      <4>1. ~IsWrappedList(f, format) /\ ~Custom(f) /\ ~f.emptyAsNull
        BY <1>2, <1>5, <1>6, <2>1, <3>2 DEF Custom
      <4>2. DecimalParams(f) = {}
        BY <1>5, <1>6 DEF DecimalParams, leaf
      <4>3. QED
        BY <3>2, <4>1, <4>2 DEF DeOf, SerOf, leaf
    <3>3. QED
      BY <3>1, <3>2
  <2>5. path[1] = "derive"
    BY <1>3, <1>11, <2>4
  <2>6. QED
    BY <1>8, <2>2, <2>5 DEF f
<1>12. QED
  BY <1>9, <1>10, <1>11

----------------------------------------------------------------------------
(* What a service sends. *)

Answered(m, given, values, empty, format) ==
    {SentFor(p, format, values, empty) : p \in {q \in Props(m) : q.name \in given}} \cup Additional(m, given)

\* Every property with a value gets one of those that its type describes.
ValuesFit(m, given, values) ==
    \A p \in Props(m) : HasValue(p.type) /\ p.name \in given =>
        p.name \in DOMAIN values /\ \E s \in ToSet(Variants(p.type.leaf)) : values[p.name] \in ValuesOf(s)

LEMMA GivingsFit ==
    ASSUME Reading, NEW m \in DOMAIN crate.models, NEW given, NEW values \in Givings({p \in Props(m) : p.name \in given /\ HasValue(p.type)})
    PROVE  ValuesFit(m, given, values)
<1> DEFINE ps == {p \in Props(m) : p.name \in given /\ HasValue(p.type)}
           OfName(n) == UNION {UNION {ValuesOf(t) : t \in ToSet(Variants(r.type.leaf))} : r \in {q \in ps : q.name = n}}
<1>1. DOMAIN values = {q.name : q \in ps} /\ \A n \in {q.name : q \in ps} : values[n] \in OfName(n)
  BY DEF Givings
<1>2. ASSUME NEW p \in Props(m), NEW q \in Props(m), p.name = q.name
      PROVE  p = q
  <2>1. PICK i \in DOMAIN Model(m).props : p = Model(m).props[i]
    BY DEF Props, Elements
  <2>2. q \in Elements(Model(m).props)
    BY DEF Props
  <2>3. QED
    BY <1>2, <2>1, <2>2, ReadingTyped, SendingProperty
<1>3. ASSUME NEW p \in Props(m), HasValue(p.type), p.name \in given
      PROVE  p.name \in DOMAIN values /\ \E s \in ToSet(Variants(p.type.leaf)) : values[p.name] \in ValuesOf(s)
  <2>1. p.name \in DOMAIN values /\ values[p.name] \in OfName(p.name)
    BY <1>1, <1>3
  <2> HIDE DEF ps
  <2>2. PICK r \in ps : r.name = p.name /\ values[p.name] \in UNION {ValuesOf(t) : t \in ToSet(Variants(r.type.leaf))}
    BY <2>1
  <2>3. r = p
    BY <1>2, <2>2 DEF ps
  <2>4. QED
    BY <2>1, <2>2, <2>3
<1>4. QED
  BY <1>3 DEF ValuesFit

LEMMA AdditionalIs == ASSUME NEW m, NEW given PROVE \A e \in Additional(m, given) : e.key = "*" /\ e.mark = ""
<1> DEFINE x == Entry("*", "", "", "any", <<>>)
<1>1. x.key = "*" /\ x.mark = ""
  BY DEF Entry
<1>2. Additional(m, given) = IF Model(m).additional /\ "additional_properties" \in given THEN {x} ELSE {}
  BY DEF Additional
<1> HIDE DEF x
<1>3. QED
  BY <1>1, <1>2

\* The one entry in the place of a property is the one that is sent for it.
LEMMA EntryOf ==
    ASSUME Reading, NEW m \in DOMAIN crate.models, NEW p \in Props(m), NEW given, NEW values, NEW empty, NEW format, format = AskedFormatOf(crate, m)
    PROVE  LET d == DescribedField(p, format)
           IN {e \in Answered(m, given, values, empty, format) : e.key = d.key /\ e.mark = d.mark}
                = IF p.name \in given THEN {SentFor(p, format, values, empty)} ELSE {}
<1> DEFINE d == DescribedField(p, format)
           D(q) == DescribedField(q, format)
           E(q) == SentFor(q, format, values, empty)
           all == Answered(m, given, values, empty, format)
           sent == {q \in Props(m) : q.name \in given}
<1>1. PICK i \in DOMAIN Model(m).props : p = Model(m).props[i]
  BY DEF Props, Elements
<1>2. /\ \A q \in Elements(Model(m).props) : Place(p, format) = Place(q, format) => p = q
      /\ "*" \notin {p.wire, p.xmlName}
  BY <1>1, ReadingProperty
<1>3. \A q : E(q).key = D(q).key /\ E(q).mark = D(q).mark
  BY SentIs
<1>4. \A q : Place(q, format) = <<D(q).key, D(q).mark>>
  BY DEF Place
<1>5. \A q \in Props(m) : D(q).key = d.key /\ D(q).mark = d.mark => p = q
  BY <1>2, <1>4 DEF Props
<1>6. d.key # "*"
  <2>1. d.key \in {"", p.xmlName, p.wire}
    BY DEF DescribedField, Entry
  <2>2. QED
    BY <1>2, <2>1
<1>7. \A e \in Additional(m, given) : e.key = "*"
  BY AdditionalIs
<1>8. all = {E(q) : q \in sent} \cup Additional(m, given)
  BY DEF Answered
<1> HIDE DEF D, E, d, all
<1>9. {e \in all : e.key = d.key /\ e.mark = d.mark} = IF p.name \in given THEN {E(p)} ELSE {}
  <2>1. ASSUME NEW e \in all, e.key = d.key, e.mark = d.mark
        PROVE  p.name \in given /\ e = E(p)
    <3>1. e \in {E(q) : q \in sent}
      BY <1>6, <1>7, <1>8, <2>1
    <3>2. PICK q \in sent : e = E(q)
      BY <3>1
    <3>3. QED
      BY <1>3, <1>5, <2>1, <3>2
  <2>2. ASSUME p.name \in given
        PROVE  E(p) \in all /\ E(p).key = d.key /\ E(p).mark = d.mark
    BY <1>3, <1>8, <2>2 DEF d, D
  <2>3. QED
    BY <2>1, <2>2
<1>10. QED
  BY <1>9 DEF all, d, E

\* What a model is read as, field by field.
LEMMA FieldRead ==
    ASSUME Reading, NEW m \in DOMAIN crate.models, ~Model(m).base, NEW i \in DOMAIN Model(m).props, Model(m).props[i] \in Props(m),
           NEW given, NEW values, ValuesFit(m, given, values), NEW empty \in BOOLEAN, NEW format, format = AskedFormatOf(crate, m),
           Model(m).props[i].name \in given \/ Model(m).props[i].optional
    PROVE  LET p == Model(m).props[i]
           IN ReadField(m, Fields(m)[i], Answered(m, given, values, empty, format))
                = IF p.name \in given /\ ~(empty /\ p.emptyAsNull) THEN "value" ELSE "none"
<1> DEFINE p == Model(m).props[i]
           f == Fields(m)[i]
           entries == Answered(m, given, values, empty, format)
           x == SentFor(p, format, values, empty)
           d == DescribedField(p, format)
           mine == {e \in entries : e.key = Key(m, f) /\ e.mark = Mark(m, f)}
<1>1. f \in EmittedFields(crate.models[m])
  BY ReadingTyped, PropertyOfField DEF Emitted, Model
<1>2. Key(m, f) = d.key /\ Mark(m, f) = d.mark
  BY <1>1, ReadingTyped, PlaceWritten
<1>3. mine = IF p.name \in given THEN {x} ELSE {}
  <2>1. {e \in entries : e.key = d.key /\ e.mark = d.mark} = IF p.name \in given THEN {x} ELSE {}
    BY EntryOf
  <2> HIDE DEF entries, d, x, p
  <2>2. QED
    BY <1>2, <2>1
<1>4. ReadField(m, f, entries) = IF mine = {} THEN MissingField(m, f) ELSE Understood(m, f, CHOOSE e \in mine : TRUE)
  BY DEF ReadField
<1>5. p.name \in given => Understood(m, f, x) = IF empty /\ p.emptyAsNull THEN "none" ELSE "value"
  <2>1. SUFFICES ASSUME p.name \in given PROVE Understood(m, f, x) = IF empty /\ p.emptyAsNull THEN "none" ELSE "value"
    OBVIOUS
  <2>2. HasValue(p.type) => p.name \in DOMAIN values /\ \E s \in ToSet(Variants(p.type.leaf)) : values[p.name] \in ValuesOf(s)
    BY <2>1 DEF ValuesFit
  <2>3. QED
    BY <1>1, <2>2, FieldUnderstood
<1>6. p.name \notin given => MissingField(m, f) = "none"
  BY <1>1, MissingRead
<1> HIDE DEF mine, x, p, f, entries
<1>7. (CHOOSE e \in {x} : TRUE) = x /\ {x} # {}
  OBVIOUS
<1>8. ReadField(m, f, entries) = IF p.name \in given /\ ~(empty /\ p.emptyAsNull) THEN "value" ELSE "none"
  BY <1>3, <1>4, <1>5, <1>6, <1>7
<1>9. QED
  BY <1>8 DEF p, f, entries

\* Every field of the model that was sent is read, and has what was sent.
LEMMA ModelRead ==
    ASSUME Reading, NEW m \in DOMAIN crate.models, ~Model(m).base, NEW given, Required(m, "service") \subseteq given,
           NEW values, ValuesFit(m, given, values), NEW empty \in BOOLEAN, NEW format, format = AskedFormatOf(crate, m)
    PROVE  LET outcomes == ReadFields(m, Answered(m, given, values, empty, format))
           IN /\ Whole(outcomes)
              /\ \A p \in Props(m) : p.name \in given \cap DOMAIN outcomes
                    => outcomes[p.name] = IF empty /\ p.emptyAsNull THEN "none" ELSE "value"
<1> DEFINE entries == Answered(m, given, values, empty, format)
           outcomes == ReadFields(m, entries)
           names == {f.name : f \in Emitted(m)}
           more == IF Model(m).additional THEN {"additional_properties"} ELSE {}
           chosen(n) == CHOOSE f \in Emitted(m) : f.name = n
           outcome(p) == IF p.name \in given /\ ~(empty /\ p.emptyAsNull) THEN "value" ELSE "none"
<1>1. Sending /\ TypeInv
  BY ReadingTyped
<1>2. outcomes = [n \in names \cup more |->
                    IF n \in names THEN ReadField(m, chosen(n), entries)
                    ELSE IF \E e \in entries : e.key = "*" THEN "value" ELSE "none"]
  BY DEF ReadFields
<1> HIDE DEF entries, outcomes
<1>3. ASSUME NEW f \in Emitted(m)
      PROVE  \E p \in Props(m) : f.name = p.name /\ ReadField(m, f, entries) = outcome(p)
  <2>1. PICK i \in DOMAIN Model(m).props : f = Fields(m)[i]
    BY <1>1, PropertyOfField DEF Emitted, EmittedFields, Elements, Fields
  <2>2. f.name = Model(m).props[i].name /\ Model(m).props[i] \in Props(m)
    BY <1>1, <2>1, PropertyOfField
  <2>3. Model(m).props[i].name \in given \/ Model(m).props[i].optional
    BY <2>2 DEF Required
  <2>4. ReadField(m, f, entries) = outcome(Model(m).props[i])
    BY <2>1, <2>2, <2>3, FieldRead DEF entries
  <2>5. QED
    BY <2>2, <2>4
<1>4. \A n \in names : chosen(n) \in Emitted(m) /\ chosen(n).name = n
  OBVIOUS
<1> HIDE DEF names, chosen
<1>5. \A n \in names : \E p \in Props(m) : n = p.name /\ outcomes[n] = outcome(p)
  BY <1>2, <1>3, <1>4
<1>6. Whole(outcomes)
  <2>1. ASSUME NEW n \in DOMAIN outcomes
        PROVE  outcomes[n] # "error"
    <3>1. CASE n \in names
      BY <1>5, <3>1
    <3>2. CASE n \notin names
      BY <1>2, <3>2
    <3>3. QED
      BY <3>1, <3>2
  <2>2. QED
    BY <2>1 DEF Whole
<1>7. ASSUME NEW p \in Props(m), p.name \in given
      PROVE  outcomes[p.name] = IF empty /\ p.emptyAsNull THEN "none" ELSE "value"
  <2>1. PICK i \in DOMAIN Model(m).props : p = Model(m).props[i]
    BY DEF Props, Elements
  <2>2. p.name \in names
    <3>1. Fields(m)[i] \in Emitted(m) /\ Fields(m)[i].name = p.name
      BY <1>1, <2>1, PropertyOfField
    <3>2. QED
      BY <3>1 DEF names
  <2>3. PICK q \in Props(m) : p.name = q.name /\ outcomes[p.name] = outcome(q)
    BY <1>5, <2>2
  <2>4. q \in Elements(Model(m).props)
    BY DEF Props
  <2>5. p = q
    BY <1>1, <2>1, <2>3, <2>4, SendingProperty
  <2>6. QED
    BY <1>7, <2>3, <2>5
<1>8. QED
  BY <1>6, <1>7 DEF outcomes, entries

LEMMA VariantsRead ==
    ASSUME Reading, NEW m \in DOMAIN crate.models, NEW given,
           NEW values, ValuesFit(m, given, values), NEW empty, NEW format, format = AskedFormatOf(crate, m)
    PROVE  LET found == ReadVariants(m, Answered(m, given, values, empty, format))
           IN \A p \in Props(m) : p.name \in DOMAIN found =>
                 /\ found[p.name].type \in Narrowest(Variants(p.type.leaf), values[p.name])
                 /\ Outer(found[p.name].type) = "enum"
                      => found[p.name].variant = VariantFor(Enum(found[p.name].type.leaf), values[p.name][2])
<1> DEFINE entries == Answered(m, given, values, empty, format)
           found == ReadVariants(m, entries)
           mine(f) == {e \in entries : e.key = Key(m, f) /\ e.mark = Mark(m, f)}
           with == {f \in Emitted(m) : HasValue(f.type) /\ mine(f) # {}}
           chosen(n) == CHOOSE g \in with : g.name = n
<1>1. Sending /\ TypeInv /\ SendingSupported(crate) /\ ReadingSupported(crate)
  BY ReadingTyped
<1>2. found = [n \in {f.name : f \in with} |-> ReadValue(chosen(n).type.leaf, (CHOOSE e \in mine(chosen(n)) : TRUE).of)]
  BY DEF ReadVariants
<1> HIDE DEF found, entries
<1>3. ASSUME NEW p \in Props(m), p.name \in DOMAIN found
      PROVE  /\ found[p.name].type \in Narrowest(Variants(p.type.leaf), values[p.name])
             /\ Outer(found[p.name].type) = "enum"
                  => found[p.name].variant = VariantFor(Enum(found[p.name].type.leaf), values[p.name][2])
  <2> DEFINE g == chosen(p.name)
             x == SentFor(p, format, values, empty)
             d == DescribedField(p, format)
  <2>1. g \in Emitted(m) /\ g.name = p.name /\ HasValue(g.type) /\ mine(g) # {}
        /\ found[p.name] = ReadValue(g.type.leaf, (CHOOSE e \in mine(g) : TRUE).of)
    <3>1. DOMAIN found = {f.name : f \in with}
      BY <1>2
    <3>2. g \in with /\ g.name = p.name
      BY <1>3, <3>1
    <3>3. QED
      BY <1>2, <1>3, <3>1, <3>2
  <2> HIDE DEF g
  <2>2. PICK i \in DOMAIN Model(m).props : g = Fields(m)[i]
    BY <1>1, <2>1, PropertyOfField DEF Emitted, EmittedFields, Elements, Fields
  <2>3. p = Model(m).props[i]
    <3>1. g.name = Model(m).props[i].name
      BY <1>1, <2>1, <2>2, PropertyOfField
    <3>2. p \in Elements(Model(m).props)
      BY DEF Props
    <3>3. QED
      BY <1>1, <2>1, <3>1, <3>2, SendingProperty
  <2>4. Key(m, g) = d.key /\ Mark(m, g) = d.mark
    BY <1>1, <2>1, <2>2, <2>3, PlaceWritten DEF Emitted, Model
  <2>5. {e \in entries : e.key = d.key /\ e.mark = d.mark} = IF p.name \in given THEN {x} ELSE {}
    BY EntryOf DEF entries
  <2> HIDE DEF d, x
  <2>6. mine(g) = IF p.name \in given THEN {x} ELSE {}
    BY <2>4, <2>5
  <2>7. p.name \in given /\ mine(g) = {x}
    BY <2>1, <2>6
  <2> HIDE DEF mine
  <2>8. found[p.name] = ReadValue(g.type.leaf, x.of)
    <3>1. (CHOOSE e \in {x} : TRUE) = x
      OBVIOUS
    <3>2. QED
      BY <2>1, <2>7, <3>1
  <2>9. g.type.leaf = p.type.leaf /\ p.type \in Types(crate)
    BY <1>1, <2>2, <2>3, FieldKeeps, PropertyTyped
  <2>10. HasValue(p.type) /\ ~IsLiteral(p.type.leaf)
    BY <2>1, <2>9 DEF HasValue, IsLiteral
  <2>11. p.name \in DOMAIN values /\ \E s \in ToSet(Variants(p.type.leaf)) : values[p.name] \in ValuesOf(s)
    BY <2>7, <2>10 DEF ValuesFit
  <2>12. x.of = values[p.name]
    BY <2>10, <2>11, SentIs DEF x
  <2>13. QED
    BY <1>1, <2>8, <2>9, <2>10, <2>11, <2>12, ValueRead
<1>4. QED
  BY <1>3 DEF found, entries

\* A base is read without attributes.
LEMMA BaseRead ==
    ASSUME Reading, NEW m \in DOMAIN crate.models, Model(m).base, NEW given, NEW values, NEW empty,
           NEW format, format = AskedFormatOf(crate, m)
    PROVE  LET outcomes == ReadUnknown(m, Answered(m, given, values, empty, format))
           IN /\ Whole(outcomes)
              /\ \A p \in Props(m) : p.name \in given \cap DOMAIN outcomes
                    => outcomes[p.name] = IF empty /\ p.emptyAsNull THEN "none" ELSE "value"
<1> DEFINE entries == Answered(m, given, values, empty, format)
           outcomes == ReadUnknown(m, entries)
           names == {f.name : f \in Emitted(m)}
           chosen(n) == CHOOSE f \in Emitted(m) : f.name = n
           D(q) == DescribedField(q, format)
           S(q) == SentFor(q, format, values, empty)
<1>1. Sending /\ TypeInv
  BY ReadingTyped
<1>2. outcomes = [n \in names |-> ReadUnknownField(chosen(n), entries)]
  BY DEF ReadUnknown
<1>3. ASSUME NEW p \in Props(m)
      PROVE  /\ p \in Properties(crate) /\ ~p.emptyAsNull
             /\ DescribedField(p, format).key = p.name /\ DescribedField(p, format).mark = ""
             /\ DescribedField(p, format).enc = Derived(p.type.leaf)
             /\ p.name # "*"
  <2> DEFINE leaf == p.type.leaf
             d == DescribedField(p, format)
  <2>1. PICK i \in DOMAIN Model(m).props : p = Model(m).props[i]
    BY DEF Props, Elements
  <2>2. p \in Properties(crate)
    BY <1>1, <2>1, FieldKeeps
  <2>3. format = "json" /\ PropertySupported(p, format)
    BY <1>1, <2>1, SendingProperty
  <2>4. ~p.emptyAsNull /\ p.wire = p.name /\ leaf.enc = "" /\ leaf.kind # "decimal" /\ p.wire # "*"
    BY <2>1, <2>2, PropertyTyped, ReadingProperty
  <2>5. d.key = p.wire /\ d.mark = ""
    BY <2>3 DEF DescribedField, Entry
  <2>6. ~HasHelper(leaf)
    BY <2>2, <2>4, PropertyTyped, Encoded
  <2>7. d.enc = IF leaf.kind \in {"int", "decimal"} THEN "number" ELSE IF HasValue(p.type) THEN "given" ELSE leaf.kind
    BY <2>4, DescribedEncoding
  <2>8. d.enc = Derived(leaf)
    BY <2>4, <2>6, <2>7 DEF Derived, HasHelper, EncodeAsString, HasValue
  <2>9. QED
    BY <2>2, <2>4, <2>5, <2>8
<1>4. \A q : S(q).mark = D(q).mark /\ S(q).enc = IF empty /\ q.emptyAsNull THEN "empty" ELSE D(q).enc
  BY SentIs
<1>5. \A q \in Props(m) : S(q).mark = "" /\ S(q).enc = D(q).enc
  <2>1. \A q \in Props(m) : ~q.emptyAsNull /\ D(q).mark = ""
    BY <1>3
  <2> HIDE DEF S, D
  <2>2. QED
    BY <1>4, <2>1
<1> HIDE DEF outcomes
<1>6. ASSUME NEW f \in Emitted(m)
      PROVE  \E p \in Props(m) : f.name = p.name /\ ReadUnknownField(f, entries) = IF p.name \in given THEN "value" ELSE "none"
  <2>1. PICK i \in DOMAIN Model(m).props : f = Fields(m)[i]
    BY <1>1, PropertyOfField DEF Emitted, EmittedFields, Elements, Fields
  <2> DEFINE p == Model(m).props[i]
             d == DescribedField(p, format)
             x == SentFor(p, format, values, empty)
             mine == {e \in entries : e.key = f.name}
  <2>2. f.name = p.name /\ p \in Props(m) /\ f.type.leaf = p.type.leaf
    BY <1>1, <2>1, PropertyOfField, FieldKeeps
  <2>3. d.key = p.name /\ d.mark = "" /\ d.enc = Derived(p.type.leaf) /\ p.name # "*" /\ ~p.emptyAsNull
    BY <1>3, <2>2
  <2>4. {e \in entries : e.key = d.key /\ e.mark = d.mark} = IF p.name \in given THEN {x} ELSE {}
    BY <2>2, EntryOf
  <2>5. x.enc = d.enc
    BY <1>5, <2>2
  <2>6. \A e \in entries : e.mark = ""
    <3>1. entries = {S(q) : q \in {r \in Props(m) : r.name \in given}} \cup Additional(m, given)
      BY DEF Answered
    <3>2. \A e \in Additional(m, given) : e.mark = ""
      BY AdditionalIs
    <3>3. \A q \in Props(m) : S(q).mark = ""
      BY <1>5
    <3> HIDE DEF entries, S
    <3>4. QED
      BY <3>1, <3>2, <3>3
  <2>7. ReadUnknownField(f, entries)
          = IF mine = {} THEN "none" ELSE IF \E e \in mine : e.enc = Derived(f.type.leaf) THEN "value" ELSE "error"
    BY DEF ReadUnknownField
  <2> HIDE DEF entries, p, d, x
  <2>8. mine = IF p.name \in given THEN {x} ELSE {}
    BY <2>2, <2>3, <2>4, <2>6
  <2>9. ReadUnknownField(f, entries) = IF p.name \in given THEN "value" ELSE "none"
    <3> HIDE DEF mine
    <3>1. CASE p.name \in given
      BY <2>2, <2>3, <2>5, <2>7, <2>8, <3>1
    <3>2. CASE p.name \notin given
      BY <2>7, <2>8, <3>2
    <3>3. QED
      BY <3>1, <3>2
  <2>10. QED
    BY <2>2, <2>9
<1>7. \A n \in names : chosen(n) \in Emitted(m) /\ chosen(n).name = n
  OBVIOUS
<1> HIDE DEF names, chosen, entries
<1>8. \A n \in names : \E p \in Props(m) : n = p.name /\ outcomes[n] = IF p.name \in given THEN "value" ELSE "none"
  BY <1>2, <1>6, <1>7
<1>9. Whole(outcomes)
  <2>1. \A n \in DOMAIN outcomes : outcomes[n] # "error"
    BY <1>2, <1>8
  <2>2. QED
    BY <2>1 DEF Whole
<1>10. \A p \in Props(m) : p.name \in given \cap DOMAIN outcomes
         => outcomes[p.name] = IF empty /\ p.emptyAsNull THEN "none" ELSE "value"
  BY <1>2, <1>3, <1>8
<1>11. QED
  BY <1>9, <1>10 DEF outcomes, entries

\* The member or the base that is sent is found, and a base is what is read
\* without attributes.
LEMMA UnionRead ==
    ASSUME Reading, NEW m \in DOMAIN crate.models, NEW u \in Carriers(m), NEW given, Required(m, "service") \subseteq given,
           NEW values, ValuesFit(m, given, values), NEW empty \in BOOLEAN, NEW format, format = AskedFormatOf(crate, m)
    PROVE  LET entries == Answered(m, given, values, empty, format)
           IN /\ m = IF u # NoUnion THEN ReadAs(u, entries, DescribedTags(u, m))
                     ELSE IF Whole(ReadFields(m, entries)) THEN m ELSE "error"
              /\ (m \in Bases) <=> Model(m).base
<1> DEFINE entries == Answered(m, given, values, empty, format)
           us == {w \in Unions : m \in MembersOf(w) \cup {w.base}}
           tags == DescribedTags(u, m)
           named == {v \in DOMAIN u.members : Contains(tags, Tag(u.tag, v))}
           tried == {u.members[v] : v \in named}
           v0 == ValueOf(u, m)
           Right == /\ m = IF u # NoUnion THEN ReadAs(u, entries, tags)
                           ELSE IF Whole(ReadFields(m, entries)) THEN m ELSE "error"
                    /\ (m \in Bases) <=> Model(m).base
<1> SUFFICES Right
  OBVIOUS
<1>1. Sending /\ TypeInv /\ ReadingSupported(crate) /\ HelpersSupported(crate)
  BY ReadingTyped DEF Ready
<1>2. Carriers(m) = IF us = {} THEN {NoUnion} ELSE us
  BY DEF Carriers
<1>3. Model(m).base <=> \E w \in Unions : w.kind = "base" /\ w.base = m
  BY <1>1 DEF ReadingSupported, Unions, Model
<1>4. (m \in Bases) <=> Model(m).base
  BY <1>3 DEF Bases
<1>5. \A w \in us : /\ w \in Unions /\ UnionSupported(crate, w) /\ m \in MembersOf(w) \cup {w.base}
                    /\ w.base = m => w.kind = "base"
  <2>1. \A w \in Unions : UnionSupported(crate, w)
    BY <1>1 DEF ReadingSupported, Unions
  <2>2. \A w \in Unions : w.base = m => w.kind = "base"
    BY <2>1 DEF UnionSupported
  <2>3. QED
    BY <2>1, <2>2
<1>6. ReadAs(u, entries, tags)
        = IF \E n \in tried : Whole(ReadFields(n, entries)) THEN CHOOSE n \in tried : Whole(ReadFields(n, entries))
          ELSE IF u.kind = "base" /\ Whole(ReadUnknown(u.base, entries)) THEN u.base ELSE "error"
  BY DEF ReadAs
<1>7. ~Model(m).base => Whole(ReadFields(m, entries))
  BY ModelRead
<1>8. Model(m).base => Whole(ReadUnknown(m, entries))
  BY BaseRead
<1> HIDE DEF entries
<1>9. CASE u = NoUnion
  <2>1. NoUnion \notin us
    <3>1. MembersOf(NoUnion) = {} /\ NoUnion.base = "" /\ NoUnion.kind = ""
      BY DEF NoUnion, MembersOf, Empty
    <3>2. QED
      BY <1>5, <3>1
  <2>2. us = {}
    BY <1>2, <1>9, <2>1
  <2>3. ~Model(m).base
    BY <1>3, <2>2
  <2>4. QED
    BY <1>4, <1>7, <1>9, <2>3
<1>10. ASSUME u # NoUnion
       PROVE  u \in us
  BY <1>2, <1>10
<1>11. CASE u # NoUnion /\ m = u.base
  <2>1. u.kind = "base" /\ Model(m).base
    BY <1>3, <1>5, <1>10, <1>11
  <2>2. tags = <<>>
    BY <1>11 DEF DescribedTags
  <2>3. named = {}
    <3>1. \A x : ~Contains(<<>>, x)
      BY DEF Contains
    <3> HIDE DEF tags
    <3>2. QED
      BY <2>2, <3>1
  <2> HIDE DEF named, tags
  <2>4. tried = {}
    BY <2>3
  <2> HIDE DEF tried
  <2>5. QED
    BY <1>4, <1>6, <1>8, <1>11, <2>1, <2>4
<1>12. CASE u # NoUnion /\ m # u.base
  <2>1. u \in us /\ m \in MembersOf(u) /\ UnionSupported(crate, u)
    BY <1>5, <1>10, <1>12
  <2>2. ~Model(m).base
    BY <1>12, <2>1 DEF UnionSupported, Model
  <2>3. Model(m).discriminator # "" => Discriminator(m).serde = u.tag
    <3>1. SUFFICES ASSUME Model(m).discriminator # "" PROVE Discriminator(m).serde = u.tag
      OBVIOUS
    <3>2. PICK f \in Elements(Fields(m)) : f.name = Model(m).discriminator /\ f.serde = u.tag
      BY <1>12, <2>1, <3>1 DEF UnionSupported, Model, Fields
    <3>3. \A g, h \in Elements(Fields(m)) : g.name = h.name => g = h
      BY <1>1 DEF HelpersSupported, Fields, Model
    <3>4. Discriminator(m) \in Elements(Fields(m)) /\ Discriminator(m).name = Model(m).discriminator
      BY <3>2 DEF Discriminator
    <3>5. QED
      BY <3>2, <3>3, <3>4
  <2>4. tags = <<Tag(u.tag, v0)>>
    BY <1>12, <2>3 DEF DescribedTags
  <2>5. v0 \in DOMAIN u.members /\ u.members[v0] = m
    BY <2>1 DEF MembersOf, ValueOf
  <2> HIDE DEF v0, tags
  <2>6. \A v : Contains(tags, Tag(u.tag, v)) <=> v = v0
    <3>1. \A x, y : Contains(<<x>>, y) <=> x = y
      BY DEF Contains
    <3>2. \A v, w : Tag(u.tag, v) = Tag(u.tag, w) => v = w
      BY DEF Tag
    <3>3. QED
      BY <2>4, <3>1, <3>2
  <2>7. named = {v0}
    BY <2>5, <2>6
  <2> HIDE DEF named
  <2>8. tried = {m}
    BY <2>5, <2>7
  <2> HIDE DEF tried
  <2>9. ReadAs(u, entries, tags) = m
    BY <1>6, <1>7, <2>2, <2>8
  <2>10. QED
    BY <1>4, <1>12, <2>9
<1>13. QED
  BY <1>9, <1>11, <1>12

----------------------------------------------------------------------------
(* What a service answers, and what is read. *)

\* What is right about a reading rd of a model, by what was sent.
RightlyRead(m, given, values, empty, rd) ==
    /\ rd.as = m
    /\ \A p \in Props(m) : p.name \in given \cap DOMAIN rd.fields
          => rd.fields[p.name] = IF empty /\ p.emptyAsNull THEN "none" ELSE "value"
    /\ \A p \in Props(m) : p.name \in DOMAIN rd.variants =>
          /\ rd.variants[p.name].type \in Narrowest(Variants(p.type.leaf), values[p.name])
          /\ Outer(rd.variants[p.name].type) = "enum"
               => rd.variants[p.name].variant = VariantFor(Enum(rd.variants[p.name].type.leaf), values[p.name][2])

\* A service sends what the description asks for.
Answering(m, u, given, values, empty) ==
    /\ m \in DOMAIN crate.models /\ u \in Carriers(m) /\ Required(m, "service") \subseteq given
    /\ ValuesFit(m, given, values) /\ empty \in BOOLEAN

LEMMA AnswerRead ==
    ASSUME Reading, NEW m, NEW u, NEW given, NEW values, NEW empty, Answering(m, u, given, values, empty), NEW entries, NEW tags, NEW rd,
           entries = Answered(m, given, values, empty, AskedFormatOf(crate, m)), tags = DescribedTags(u, m),
           LET as == IF u # NoUnion THEN ReadAs(u, entries, tags)
                     ELSE IF Whole(ReadFields(m, entries)) THEN m ELSE "error"
           IN rd = [as |-> as,
                    fields |-> CASE as = "error" -> Empty
                                 [] as \in Bases -> ReadUnknown(as, entries)
                                 [] OTHER -> ReadFields(as, entries),
                    variants |-> IF as \in {"error"} \cup Bases THEN Empty ELSE ReadVariants(as, entries)]
    PROVE  RightlyRead(m, given, values, empty, rd)
<1> DEFINE as == IF u # NoUnion THEN ReadAs(u, entries, tags)
                 ELSE IF Whole(ReadFields(m, entries)) THEN m ELSE "error"
           outcomes == CASE as = "error" -> Empty
                         [] as \in Bases -> ReadUnknown(as, entries)
                         [] OTHER -> ReadFields(as, entries)
           found == IF as \in {"error"} \cup Bases THEN Empty ELSE ReadVariants(as, entries)
           Fit(r) == \A p \in Props(m) : p.name \in given \cap DOMAIN r
                        => r[p.name] = IF empty /\ p.emptyAsNull THEN "none" ELSE "value"
           Told(r) == \A p \in Props(m) : p.name \in DOMAIN r =>
                         /\ r[p.name].type \in Narrowest(Variants(p.type.leaf), values[p.name])
                         /\ Outer(r[p.name].type) = "enum"
                              => r[p.name].variant = VariantFor(Enum(r[p.name].type.leaf), values[p.name][2])
<1>1. m \in DOMAIN crate.models /\ u \in Carriers(m) /\ Required(m, "service") \subseteq given
      /\ ValuesFit(m, given, values) /\ empty \in BOOLEAN
  BY DEF Answering
<1>2. rd = [as |-> as, fields |-> outcomes, variants |-> found]
  OBVIOUS
<1>3. as = m /\ ((m \in Bases) <=> Model(m).base)
  BY <1>1, UnionRead
<1>4. Fit(Empty) /\ Told(Empty)
  BY DEF Empty
<1>5. Model(m).base => Fit(ReadUnknown(m, entries))
  BY <1>1, BaseRead
<1>6. ~Model(m).base => Fit(ReadFields(m, entries))
  BY <1>1, ModelRead
<1>7. Told(ReadVariants(m, entries))
  BY <1>1, VariantsRead
<1>8. outcomes = Empty \/ (m \in Bases /\ outcomes = ReadUnknown(m, entries)) \/ (m \notin Bases /\ outcomes = ReadFields(m, entries))
  <2> HIDE DEF as
  <2>1. outcomes = CASE m = "error" -> Empty
                     [] m \in Bases -> ReadUnknown(m, entries)
                     [] OTHER -> ReadFields(m, entries)
    BY <1>3
  <2> HIDE DEF outcomes
  <2>2. CASE m = "error" /\ m \notin Bases
    BY <2>1, <2>2
  <2>3. CASE m # "error" /\ m \in Bases
    BY <2>1, <2>3
  <2>4. CASE m = "error" /\ m \in Bases
    BY <2>1, <2>4
  <2>5. CASE m # "error" /\ m \notin Bases
    BY <2>1, <2>5
  <2>6. QED
    BY <2>2, <2>3, <2>4, <2>5
<1>9. found = Empty \/ found = ReadVariants(m, entries)
  <2> HIDE DEF as
  <2>1. QED
    BY <1>3
<1> HIDE DEF Fit, Told, as, outcomes, found
<1>10. Fit(outcomes)
  BY <1>3, <1>4, <1>5, <1>6, <1>8
<1>11. Told(found)
  BY <1>4, <1>7, <1>9
<1>12. rd.as = m /\ rd.fields = outcomes /\ rd.variants = found
  BY <1>2, <1>3
<1>13. QED
  BY <1>10, <1>11, <1>12 DEF RightlyRead, Fit, Told

\* What is on its way, and what has been read: the names are bound for the
\* sake of the next state.
AnswerRight ==
    pc = "answered" =>
        \A m, u, given, values, empty, format :
            /\ message.model = m /\ message.union = u /\ message.given = given /\ message.values = values
            /\ message.empty = empty /\ format = AskedFormat(m)
            => /\ Answering(m, u, given, values, empty)
               /\ wire.entries = Answered(m, given, values, empty, format) /\ wire.tags = DescribedTags(u, m)

ReadRight ==
    pc = "read" =>
        \A m, given, values, empty, rd :
            /\ message.model = m /\ message.given = given /\ message.values = values /\ message.empty = empty /\ read = rd
            => RightlyRead(m, given, values, empty, rd)

LEMMA SameReading ==
    ASSUME UNCHANGED crate
    PROVE  /\ \A m : AskedFormat(m)' = AskedFormat(m)
           /\ \A m, u, given, values, empty : Answering(m, u, given, values, empty)' <=> Answering(m, u, given, values, empty)
           /\ \A m, given, values, empty, format : Answered(m, given, values, empty, format)' = Answered(m, given, values, empty, format)
           /\ \A m, given, values, empty, rd : RightlyRead(m, given, values, empty, rd)' <=> RightlyRead(m, given, values, empty, rd)
<1>1. \A m : Model(m)' = Model(m) /\ AskedFormat(m)' = AskedFormat(m)
  BY DEF Model, AskedFormat
<1>2. \A m : Props(m)' = Props(m)
  BY <1>1 DEF Props
<1>3. \A leaf : Enum(leaf)' = Enum(leaf) /\ Variants(leaf)' = Variants(leaf)
  BY DEF Enum, Variants
<1>4. \A t : ValuesOf(t)' = ValuesOf(t)
  BY <1>3 DEF ValuesOf
<1>5. \A variants, value : Narrowest(variants, value)' = Narrowest(variants, value)
  BY <1>4 DEF Narrowest
<1>6. \A m, by : Carriers(m)' = Carriers(m) /\ Required(m, by)' = Required(m, by)
  BY <1>2 DEF Carriers, Unions, Required
<1>7. \A m, given, values : ValuesFit(m, given, values)' <=> ValuesFit(m, given, values)
  BY <1>2, <1>3, <1>4 DEF ValuesFit
<1>8. \A m, given, values, empty, format : Answered(m, given, values, empty, format)' = Answered(m, given, values, empty, format)
  BY <1>1, <1>2 DEF Answered, Additional
<1>9. \A m, u, given, values, empty : Answering(m, u, given, values, empty)' <=> Answering(m, u, given, values, empty)
  BY <1>6, <1>7 DEF Answering
<1>10. \A m, given, values, empty, rd : RightlyRead(m, given, values, empty, rd)' <=> RightlyRead(m, given, values, empty, rd)
  BY <1>2, <1>3, <1>5 DEF RightlyRead
<1>11. QED
  BY <1>1, <1>8, <1>9, <1>10

LEMMA OnlyAnswer == ASSUME [Next]_vars, pc' = "answered" PROVE Answer \/ UNCHANGED vars
  BY DEF Next, TakeBody, AddBodyFormat, ConflictingFormats, FormatsDone, EmitModels, NoModels, EmitField, UnexpectedKind, NoUnionMember,
         EmitHelpers, ModelsDone, Send, Read, Finished, Fail

LEMMA OnlyRead == ASSUME [Next]_vars, pc' = "read" PROVE Read \/ UNCHANGED vars
  BY DEF Next, TakeBody, AddBodyFormat, ConflictingFormats, FormatsDone, EmitModels, NoModels, EmitField, UnexpectedKind, NoUnionMember,
         EmitHelpers, ModelsDone, Send, Answer, Finished, Fail

LEMMA AnswerStep ==
    ASSUME SerdeInv, ReachedPlainly(crate), HelpersSupported(crate), SendingSupported(crate), ReadingSupported(crate),
           AnswerRight, [Next]_vars
    PROVE  AnswerRight'
<1>1. SUFFICES ASSUME pc' = "answered" PROVE AnswerRight'
  BY DEF AnswerRight
<1>2. UNCHANGED crate
  BY CrateStays
<1>3. CASE UNCHANGED vars
  <2>1. UNCHANGED <<pc, message, wire>>
    BY <1>3 DEF vars, exchange
  <2>2. QED
    BY <1>2, <2>1, SameReading, SameDescription DEF AnswerRight
<1>4. CASE Answer
  <2>1. Reading
    BY <1>4 DEF Answer, Reading, Ready
  <2>2. /\ Message("service")
        /\ wire' = [tags |-> DescribedTags(message'.union, message'.model),
                    entries |-> {Emptied(Plain(DescribedField(p, AskedFormat(message'.model)), p, message'.values), p) :
                                    p \in {q \in Props(message'.model) : q.name \in message'.given}}
                                  \cup Additional(message'.model, message'.given)]
    BY <1>4 DEF Answer
  <2>3. PICK m \in DOMAIN crate.models :
           \E given \in SUBSET Names(m), empty \in BOOLEAN, u \in Carriers(m) :
               /\ Required(m, "service") \subseteq given
               /\ \E values \in Givings({p \in Props(m) : p.name \in given /\ HasValue(p.type)}) :
                    message' = [by |-> "service", model |-> m, union |-> u, given |-> given, values |-> values, empty |-> empty]
    BY <2>2 DEF Message
  <2>4. PICK given \in SUBSET Names(m), empty \in BOOLEAN, u \in Carriers(m) :
           /\ Required(m, "service") \subseteq given
           /\ \E values \in Givings({p \in Props(m) : p.name \in given /\ HasValue(p.type)}) :
                message' = [by |-> "service", model |-> m, union |-> u, given |-> given, values |-> values, empty |-> empty]
    BY <2>3
  <2>5. PICK values \in Givings({p \in Props(m) : p.name \in given /\ HasValue(p.type)}) :
           message' = [by |-> "service", model |-> m, union |-> u, given |-> given, values |-> values, empty |-> empty]
    BY <2>4
  <2>6. message'.model = m /\ message'.union = u /\ message'.given = given /\ message'.values = values /\ message'.empty = empty
    BY <2>5
  <2>7. ValuesFit(m, given, values)
    BY <2>1, GivingsFit
  <2>8. Answering(m, u, given, values, empty)
    BY <2>4, <2>7 DEF Answering
  <2> DEFINE format == AskedFormatOf(crate, m)
             sent == {q \in Props(m) : q.name \in given}
  <2>9. wire'.tags = DescribedTags(u, m)
        /\ wire'.entries = {Emptied(Plain(DescribedField(p, format), p, values), p) : p \in sent} \cup Additional(m, given)
    BY <2>2, <2>6 DEF AskedFormat
  <2>10. \A e, p : Emptied(e, p) = Sent(e, p, empty)
    BY <2>6 DEF Emptied, Sent
  <2>11. wire'.entries = Answered(m, given, values, empty, format)
    BY <2>9, <2>10 DEF Answered, SentFor
  <2>12. format = AskedFormat(m)
    BY DEF AskedFormat
  <2> HIDE DEF format, sent
  <2>13. QED
    BY <1>2, <2>6, <2>8, <2>9, <2>11, <2>12, SameReading, SameDescription DEF AnswerRight
<1>5. QED
  BY <1>1, <1>3, <1>4, OnlyAnswer

LEMMA ReadStep ==
    ASSUME SerdeInv, ReachedPlainly(crate), HelpersSupported(crate), SendingSupported(crate), ReadingSupported(crate),
           AnswerRight, ReadRight, [Next]_vars
    PROVE  ReadRight'
<1>1. SUFFICES ASSUME pc' = "read" PROVE ReadRight'
  BY DEF ReadRight
<1>2. UNCHANGED crate
  BY CrateStays
<1>3. CASE UNCHANGED vars
  <2>1. UNCHANGED <<pc, message, read>>
    BY <1>3 DEF vars, exchange
  <2>2. QED
    BY <1>2, <2>1, SameReading DEF ReadRight
<1>4. CASE Read
  <2>1. Reading /\ pc = "answered" /\ message' = message
    BY <1>4 DEF Read, Reading, Ready
  <2>2. ASSUME NEW m, NEW u, NEW given, NEW values, NEW empty, NEW entries, NEW tags, NEW rd,
               message.model = m, message.union = u, message.given = given, message.values = values, message.empty = empty,
               wire.entries = entries, wire.tags = tags, read' = rd
        PROVE  RightlyRead(m, given, values, empty, rd)
    <3>1. Answering(m, u, given, values, empty) /\ entries = Answered(m, given, values, empty, AskedFormatOf(crate, m))
          /\ tags = DescribedTags(u, m)
      BY <2>1, <2>2 DEF AnswerRight, AskedFormat
    <3>2. LET as == IF u # NoUnion THEN ReadAs(u, entries, tags)
                    ELSE IF Whole(ReadFields(m, entries)) THEN m ELSE "error"
          IN rd = [as |-> as,
                   fields |-> CASE as = "error" -> Empty
                                [] as \in Bases -> ReadUnknown(as, entries)
                                [] OTHER -> ReadFields(as, entries),
                   variants |-> IF as \in {"error"} \cup Bases THEN Empty ELSE ReadVariants(as, entries)]
      BY <1>4, <2>2 DEF Read
    <3>3. QED
      BY <2>1, <3>1, <3>2, AnswerRead
  <2>3. QED
    BY <1>2, <2>1, <2>2, SameReading DEF ReadRight
<1>5. QED
  BY <1>1, <1>3, <1>4, OnlyRead

\* Whichever the crate, if its descriptions are among those whose messages the
\* emitted code can write and read: what a service sends by the description,
\* whichever the model, the union and the fields that it leaves out, is read as
\* the model it is, every field that is sent has its value, an empty string is
\* none where the description says so, and a value of an untagged union or of
\* an enum is read as the narrowest variant that describes it (emitModels,
\* emitUnions, emitEnums and buildUntaggedUnion, as serde follows the attributes).
THEOREM ReadsWhatIsDescribed ==
    Spec /\ ReachedPlainly(crate) /\ HelpersSupported(crate) /\ SendingSupported(crate) /\ ReadingSupported(crate)
      => []ReadsWhatIsSent
<1> DEFINE Supported == ReachedPlainly(crate) /\ HelpersSupported(crate) /\ SendingSupported(crate) /\ ReadingSupported(crate)
<1>1. Init => AnswerRight /\ ReadRight
  BY DEF Init, AnswerRight, ReadRight
<1>2. Supported /\ [Next]_vars => Supported'
  BY CrateStays
<1>3. SerdeInv /\ Supported /\ AnswerRight /\ ReadRight /\ [Next]_vars => AnswerRight' /\ ReadRight'
  BY AnswerStep, ReadStep
<1>4. ReadRight => ReadsWhatIsSent
  BY DEF ReadRight, RightlyRead, ReadsWhatIsSent
<1> HIDE DEF Supported
<1>5. Spec /\ Supported => []ReadsWhatIsSent
  BY <1>1, <1>2, <1>3, <1>4, SerdeInvariant, PTL DEF Spec
<1>6. QED
  BY <1>5 DEF Supported
=============================================================================
