-------------------------- MODULE MethodCallProofs --------------------------
(***************************************************************************)
(* Theorems about MethodCall for any methods: what a method emits compiles, *)
(* every option matters, and what it sends is what HttpCall promises.      *)
(***************************************************************************)
EXTENDS MethodCall, FiniteSetTheorems, TLAPS

\* The Rust parameter for the segment s of o.
ParamFor(o, s) ==
    RustParam(o, Last(s).name, IF IsPart(o, s) THEN "partialBody" ELSE o.kind, Last(s).optional,
              IF Len(s) = 2 /\ ~Last(s).optional THEN Head(s).name ELSE NoGroup)

\* The segment has been adapted: those of a parameter of the signature with it,
\* those of the client in the end.
IsSettled(o, s) == /\ o \in Ops /\ s \in o.segments /\ ~Skipped(o)
                   /\ IF o.client THEN pc # "adapt" ELSE Head(s) \notin todo

\* The Rust parameters are what the segments ask for, and nothing else.
ParamsFollow ==
    /\ \A o \in Ops : \A s \in o.segments : IsSettled(o, s) => ParamFor(o, s) \in params
    /\ \A q \in params : \E o \in Ops : \E s \in o.segments : IsSettled(o, s) /\ q = ParamFor(o, s)

OptionsFollow ==
    options = {q.name : q \in {r \in params : ~r.client /\ r.optional /\ ~OptionalContentType(r)}}

ParamsInv == /\ method \in Methods /\ todo \subseteq method.params
             /\ pc \notin {"adapt", "failed"} => todo = {}
             /\ pc # "failed" => ParamsFollow /\ OptionsFollow

\* What is given, and what is sent when the emitted method has come to pc.
UnderWay == {"check", "path", "query", "header", "body"}

GivenInv == /\ given \in [Segments -> {"some", "absent", "empty"}]
            /\ \A s \in Segments : given[s] = "absent" => Last(s).optional

GoesWithBody(o) == o.kind = "header" /\ o.name = "content-type" /\ o.optional

IsHandled(o) == \/ o.kind = "path" /\ pc \in {"query", "header", "body"}
                \/ o.kind = "query" /\ pc \in {"header", "body"}
                \/ o.kind = "header" /\ ~GoesWithBody(o) /\ pc = "body"

RequestInv == /\ DOMAIN request = {o.name : o \in Ops}
              /\ \A o \in Ops : request[o.name] = IF IsHandled(o) THEN Promise!Promised(o, given)
                                                 ELSE Promise!NotSent

CallInv == pc \in UnderWay => /\ GivenInv /\ RequestInv
                              /\ pc # "check" => ~Promise!IsRefused(given)

IsSupported(m) == Emittable(m) /\ LiteralsRequired(m) /\ Overrides(m)

----------------------------------------------------------------------------
(* Descriptions. *)

LEMMA Described ==
    ASSUME method \in Methods, NEW o \in Ops, NEW s \in o.segments
    PROVE  /\ IsSegment(method, o, s)
           /\ o \in Operations
           /\ s \in Seq(Properties) /\ Len(s) \in 1..2
           /\ Last(s) \in Properties /\ Head(s) \in Properties
           /\ Len(s) = 1 => Head(s) = Last(s)
<1>1. WellFormed(method)
  BY MethodAssumption
<1>2. IsSegment(method, o, s) /\ o \in Operations
  BY <1>1 DEF WellFormed, Ops
<1>3. s \in Seq(Properties) /\ Len(s) \in 1..2
  BY <1>2 DEF IsSegment, Operations
<1>4. Last(s) \in Properties /\ Head(s) \in Properties
  BY <1>3 DEF Last
<1>5. Len(s) = 1 => Head(s) = Last(s)
  BY <1>3 DEF Last
<1> QED BY <1>2, <1>3, <1>4, <1>5

\* Operations have a name each, segments too, and signatures likewise.
LEMMA SameOperation ==
    ASSUME method \in Methods, NEW o \in Ops, NEW p \in Ops,
           o.name = p.name \/ (o.kind = "body" /\ p.kind = "body")
    PROVE  o = p
  BY MethodAssumption DEF WellFormed, Ops

LEMMA SameSegment ==
    ASSUME method \in Methods, NEW o \in Ops, NEW p \in Ops,
           NEW s \in o.segments, NEW t \in p.segments
    PROVE  /\ Last(s).name = Last(t).name => o = p /\ s = t
           /\ Len(s) = 2 => Last(t) # Head(s)
<1>1. WellFormed(method)
  BY MethodAssumption
<1>2. AreDistinct(o, s, p, t)
  BY <1>1 DEF WellFormed, Ops
<1> QED BY <1>2 DEF AreDistinct

LEMMA SameParameter ==
    ASSUME method \in Methods, NEW p \in method.params, NEW q \in method.params, p.name = q.name
    PROVE  p = q
  BY MethodAssumption DEF WellFormed

\* A parameter of the signature is where segments begin.
LEMMA Begins ==
    ASSUME method \in Methods, NEW p \in method.params, NEW o \in Ops, NEW s \in o.segments
    PROVE  /\ Head(s).name = p.name => Head(s) = p /\ ~o.client
           /\ Last(s).name = p.name => Head(s) = p /\ ~o.client /\ Len(s) = 1
<1>1. /\ IsSegment(method, o, s) /\ Len(s) \in 1..2
      /\ Len(s) = 1 => Head(s) = Last(s)
  BY Described
<1>2. Head(s).name = p.name => Head(s) = p /\ ~o.client
  BY <1>1, SameParameter DEF IsSegment
<1>3. Last(s).name = p.name => Len(s) = 1
  BY <1>1 DEF IsSegment
<1> QED BY <1>1, <1>2, <1>3

LEMMA StrictExact ==
    ASSUME method \in Methods, NEW p \in method.params, NEW o \in Ops
    PROVE  o \in Strict(p) <=> \E s \in o.segments : Head(s) = p /\ Len(s) = 1
<1>1. \A s \in o.segments : Last(s).name = p.name <=> Head(s) = p /\ Len(s) = 1
  BY Described, Begins
<1> QED BY <1>1 DEF Strict

LEMMA MatchesExact ==
    ASSUME method \in Methods, NEW p \in method.params, NEW o \in Ops
    PROVE  o \in Matches(p) <=> \E s \in o.segments : Head(s) = p
<1>1. \A x \in Ops : \A s \in x.segments : Head(s).name = p.name <=> Head(s) = p
  BY Begins
<1>2. CASE Strict(p) = {}
  BY <1>1, <1>2 DEF Matches
<1>3. CASE Strict(p) # {}
  <2>1. PICK x \in Ops : x \in Strict(p)
    BY <1>3 DEF Strict
  <2>2. PICK t \in x.segments : Head(t) = p /\ Len(t) = 1
    BY <2>1, StrictExact
  <2>3. Last(t) = p
    BY <2>2, Described
  <2>4. \A s \in o.segments : Head(s) = p => Len(s) = 1
    BY <2>3, SameSegment, Described
  <2>5. (\E s \in o.segments : Head(s) = p) <=> o \in Strict(p)
    BY <2>4, StrictExact
  <2> QED BY <1>3, <2>5 DEF Matches
<1> QED BY <1>2, <1>3

\* An operation takes a parameter of the signature once.
LEMMA OneSegment ==
    ASSUME method \in Methods, NEW o \in Ops, NEW s \in o.segments, NEW t \in o.segments
    PROVE  /\ Head(s) = Head(t) => s = t
           /\ s # t => IsPart(o, s) /\ Len(s) = 1
<1>1. s # t => IsPart(o, s) /\ IsPart(o, t)
  BY Described DEF IsSegment
<1>2. s # t => Len(s) = 1 /\ Len(t) = 1
  BY <1>1 DEF IsPart
<1>3. s # t => Head(s) # Head(t)
  BY <1>2, Described, SameSegment
<1> QED BY <1>1, <1>2, <1>3

----------------------------------------------------------------------------
(* The parameter that a segment asks for. *)

LEMMA ParamFields ==
    ASSUME NEW o, NEW s
    PROVE  LET q == ParamFor(o, s)
           IN  /\ q.name = Last(s).name
               /\ q.kind = IF IsPart(o, s) THEN "partialBody" ELSE o.kind
               /\ q.op = o.name
               /\ q.client = o.client
               /\ q.optional = Last(s).optional
               /\ q.constant <=> o.type = "constant"
               /\ q.text <=> o.type = "text"
               /\ q.mayBeEmpty = o.mayBeEmpty
               /\ q.each = o.each
               /\ q.group = IF Len(s) = 2 /\ ~Last(s).optional THEN Head(s).name ELSE NoGroup
  BY DEF ParamFor, RustParam

LEMMA ClientField == ASSUME NEW o, NEW s PROVE ParamFor(o, s).client = o.client
  BY ParamFields

LEMMA OptionalField == ASSUME NEW o, NEW s PROVE ParamFor(o, s).optional = Last(s).optional
  BY ParamFields

LEMMA MayBeEmptyField == ASSUME NEW o, NEW s PROVE ParamFor(o, s).mayBeEmpty = o.mayBeEmpty
  BY ParamFields

LEMMA SegmentOfParam ==
    ASSUME method \in Methods, NEW o \in Ops, NEW s \in o.segments
    PROVE  SegmentsOf(ParamFor(o, s)) = {s}
<1> DEFINE q == ParamFor(o, s)
<1>1. /\ q.name = Last(s).name /\ q.op = o.name
      /\ q.kind = IF IsPart(o, s) THEN "partialBody" ELSE o.kind
  BY ParamFields
<1>2. o.kind # "partialBody"
  BY Described DEF Operations
<1> HIDE DEF q
<1>3. o = CHOOSE x \in Ops : x.name = q.op
  BY <1>1, SameOperation
<1>4. CASE IsPart(o, s)
  <2>1. SegmentsOf(q) = {t \in o.segments : Last(t).name = Last(s).name}
    BY <1>1, <1>3, <1>4 DEF SegmentsOf
  <2> QED BY <2>1, SameSegment DEF q
<1>5. CASE ~IsPart(o, s)
  <2>1. SegmentsOf(q) = o.segments
    BY <1>1, <1>2, <1>3, <1>5 DEF SegmentsOf
  <2> QED BY <2>1, <1>5, OneSegment DEF q
<1> QED BY <1>4, <1>5

\* The parameter of the signature p asks for these.
FromParam(p) == UNION {{ParamFor(o, s) : s \in {t \in o.segments : Head(t) = p}} :
                          o \in {x \in Ops : ~Skipped(x)}}

LEMMA InFromParam ==
    ASSUME NEW p, NEW q
    PROVE  q \in FromParam(p) <=>
              \E o \in Ops : ~Skipped(o) /\ \E s \in o.segments : Head(s) = p /\ q = ParamFor(o, s)
  BY DEF FromParam

LEMMA AsAdapted ==
    ASSUME method \in Methods, NEW o \in Ops, NEW s \in o.segments, ~IsPart(o, s), ~o.client
    PROVE  ParamFor(o, s) =
               Adapted(o, Last(s), IF Len(s) = 2 /\ ~Last(s).optional THEN Head(s).name ELSE NoGroup)
<1>1. Last(s).name = o.name
  BY Described DEF IsSegment
<1>2. ParamName(o) = o.name
  BY DEF ParamName
<1> QED BY <1>1, <1>2 DEF ParamFor, Adapted

LEMMA AdaptOneAdds ==
    ASSUME method \in Methods, NEW p \in method.params, AdaptOne(p)
    PROVE  Processed(FromParam(p))
<1>1. PICK o \in Matches(p) :
         /\ Matches(p) = {o} /\ ~Skipped(o) /\ ~Unfit(o, p)
         /\ Processed({IF IsSpread(o, p) THEN RustParam(o, p.name, "partialBody", p.optional, NoGroup)
                       ELSE Adapted(o, p, NoGroup)})
  BY DEF AdaptOne
<1>2. o \in Ops
  BY DEF Matches, Strict
<1>3. PICK s \in o.segments : Head(s) = p
  BY <1>2, MatchesExact
<1>4. ~o.client /\ p \in Properties
  BY <1>2, <1>3, Begins, Described
<1>5. Len(s) = 1
  <2>1. SUFFICES ASSUME Len(s) # 1 PROVE FALSE
    OBVIOUS
  <2>2. Len(s) = 2
    BY <1>2, <2>1, Described
  <2>3. p.type \notin Scalars /\ (o.kind = "body" => IsSpread(o, p))
    BY <1>2, <1>3, <2>2, Described DEF IsSegment
  <2>4. o \notin Strict(p)
    <3>1. \A t \in o.segments : Head(t) = p => t = s
      BY <1>2, <1>3, OneSegment
    <3> QED BY <1>2, <2>1, <3>1, StrictExact
  <2>5. IsSpread(o, p) \/ o.kind # "body"
    BY <2>3
  <2> QED BY <1>1, <2>3, <2>4, <2>5 DEF Unfit
<1>6. Last(s) = p
  BY <1>2, <1>3, <1>5, Described
<1>7. FromParam(p) = {ParamFor(o, s)}
  <2>1. \A x \in Ops : \A t \in x.segments : Head(t) = p => x = o
    BY <1>1, MatchesExact
  <2>2. \A t \in o.segments : Head(t) = p => t = s
    BY <1>2, <1>3, OneSegment
  <2>3. \A q : q \in FromParam(p) <=> q = ParamFor(o, s)
    BY <1>1, <1>2, <1>3, <2>1, <2>2, InFromParam
  <2> QED BY <2>3
<1>8. ParamFor(o, s) = IF IsSpread(o, p) THEN RustParam(o, p.name, "partialBody", p.optional, NoGroup)
                       ELSE Adapted(o, p, NoGroup)
  <2>1. IsPart(o, s) <=> IsSpread(o, p)
    BY <1>5, <1>6 DEF IsPart
  <2>2. CASE IsSpread(o, p)
    BY <2>1, <2>2, <1>5, <1>6 DEF ParamFor
  <2>3. CASE ~IsSpread(o, p)
    <3>1. (IF Len(s) = 2 /\ ~Last(s).optional THEN Head(s).name ELSE NoGroup) = NoGroup
      BY <1>5
    <3>2. ParamFor(o, s) = Adapted(o, Last(s), IF Len(s) = 2 /\ ~Last(s).optional THEN Head(s).name ELSE NoGroup)
      BY <2>1, <2>3, <1>2, <1>4, AsAdapted
    <3> QED BY <2>3, <3>1, <3>2, <1>6
  <2> QED BY <2>2, <2>3
<1> QED BY <1>1, <1>7, <1>8

LEMMA AdaptGroupAdds ==
    ASSUME method \in Methods, NEW p \in method.params, AdaptGroup(p)
    PROVE  Processed(FromParam(p))
<1> DEFINE InGroup(o) == Adapted(o, PropertyOf(o), IF PropertyOf(o).optional THEN NoGroup ELSE p.name)
           added == {InGroup(o) : o \in {m \in Matches(p) : ~Skipped(m)}}
<1>1. Processed(added)
  BY DEF AdaptGroup
<1>2. Matches(p) \subseteq Ops
  BY DEF Matches, Strict
<1>3. Strict(p) = {}
  <2>1. SUFFICES ASSUME NEW o \in Strict(p) PROVE FALSE
    OBVIOUS
  <2>2. o \in Ops
    BY DEF Strict
  <2>3. \A x \in Strict(p) : x = o
    BY <2>2, SameSegment DEF Strict
  <2>4. Matches(p) = {o}
    BY <2>3 DEF Matches
  <2>5. Cardinality(Matches(p)) = 1
    BY <2>4, FS_Singleton
  <2>6. Cardinality(Matches(p)) > 1
    BY DEF AdaptGroup
  <2> HIDE DEF added, InGroup
  <2> QED BY <2>5, <2>6
<1>4. \A o \in Matches(p) : \A s \in o.segments :
         Head(s) = p => /\ Len(s) = 2 /\ ~IsPart(o, s) /\ ~o.client
                        /\ \A t \in o.segments : t = s
                        /\ PropertyOf(o) = Last(s)
  <2> TAKE o \in Matches(p)
  <2> TAKE s \in o.segments
  <2> HAVE Head(s) = p
  <2>1. o \in Ops
    BY <1>2
  <2>2. Len(s) = 2
    BY <1>3, <2>1, StrictExact, Described
  <2>3. ~IsPart(o, s)
    BY <2>2 DEF IsPart
  <2>4. \A t \in o.segments : t = s
    BY <2>1, <2>3, OneSegment
  <2>5. ~o.client
    BY <2>1, Begins
  <2>6. PropertyOf(o) = Last(s)
    BY <2>2, <2>4 DEF PropertyOf
  <2> QED BY <2>2, <2>3, <2>4, <2>5, <2>6
<1>5. \A o \in Matches(p) : \A s \in o.segments : Head(s) = p => ParamFor(o, s) = InGroup(o)
  <2> TAKE o \in Matches(p)
  <2> TAKE s \in o.segments
  <2> HAVE Head(s) = p
  <2>1. Len(s) = 2 /\ ~IsPart(o, s) /\ ~o.client /\ PropertyOf(o) = Last(s) /\ o \in Ops
    BY <1>2, <1>4
  <2>2. ParamFor(o, s) = Adapted(o, Last(s), IF Len(s) = 2 /\ ~Last(s).optional THEN Head(s).name ELSE NoGroup)
    BY <2>1, AsAdapted
  <2>3. (IF Len(s) = 2 /\ ~Last(s).optional THEN Head(s).name ELSE NoGroup) = IF Last(s).optional THEN NoGroup ELSE p.name
    BY <2>1
  <2> QED BY <2>1, <2>2, <2>3
<1>6. \A o \in Matches(p) : \E s \in o.segments : Head(s) = p
  BY <1>2, MatchesExact
<1>7. \A q : q \in added <=> \E o \in Matches(p) : ~Skipped(o) /\ q = InGroup(o)
  OBVIOUS
<1>8. \A o \in Ops : \A s \in o.segments : Head(s) = p => o \in Matches(p)
  BY MatchesExact
<1>9. \A q : q \in added <=> q \in FromParam(p)
  <2> HIDE DEF added, InGroup
  <2> QED BY <1>2, <1>5, <1>6, <1>7, <1>8, InFromParam
<1>10. added = FromParam(p)
  <2> HIDE DEF added
  <2> QED BY <1>9
<1> QED BY <1>1, <1>10

LEMMA SkipParamAdds ==
    ASSUME method \in Methods, NEW p \in method.params, SkipParam(p)
    PROVE  Processed(FromParam(p))
<1>1. PICK o \in Ops : Matches(p) = {o} /\ Skipped(o)
  BY DEF SkipParam
<1>2. \A x \in Ops : \A s \in x.segments : Head(s) = p => x = o
  BY <1>1, MatchesExact
<1>3. FromParam(p) = {}
  BY <1>1, <1>2, InFromParam
<1> QED BY <1>3 DEF SkipParam, Processed
----------------------------------------------------------------------------
(* The invariant. *)

LEMMA ParamsInit == ASSUME Init PROVE ParamsInv
<1>1. \A o \in Ops : \A s \in o.segments : ~IsSettled(o, s)
  <2> SUFFICES ASSUME NEW o \in Ops, NEW s \in o.segments PROVE ~IsSettled(o, s)
    OBVIOUS
  <2>1. ~o.client => Head(s) \in method.params
    BY Described DEF Init, IsSegment
  <2> QED BY <2>1 DEF Init, IsSettled
<1> QED BY <1>1 DEF Init, ParamsInv, ParamsFollow, OptionsFollow

LEMMA AdaptParamKeeps ==
    ASSUME ParamsInv, AdaptParam
    PROVE  ParamsInv'
<1>1. PICK p \in todo : (AdaptOne(p) \/ AdaptGroup(p) \/ SkipParam(p)) /\ todo' = todo \ {p}
  BY DEF AdaptParam
<1>2. pc = "adapt" /\ pc' = "adapt" /\ method' = method /\ Ops' = Ops
  BY DEF AdaptParam, Ops
<1>3. method \in Methods /\ p \in method.params /\ todo \subseteq method.params
  BY <1>1 DEF ParamsInv
<1>4. Processed(FromParam(p))
  BY <1>1, <1>3, AdaptOneAdds, AdaptGroupAdds, SkipParamAdds
<1>5. params' = params \cup FromParam(p)
  BY <1>4 DEF Processed
<1>6. options' = options \cup {q.name : q \in {r \in FromParam(p) : r.optional /\ ~OptionalContentType(r)}}
  BY <1>4 DEF Processed
<1>7. ParamsFollow /\ OptionsFollow
  BY <1>2 DEF ParamsInv
<1>8. \A o \in Ops : \A s \in o.segments :
         IsSettled(o, s)' <=> IsSettled(o, s) \/ (~Skipped(o) /\ Head(s) = p)
  BY <1>1, <1>2, <1>3, Begins DEF IsSettled
<1>9. ParamsFollow'
  BY <1>2, <1>5, <1>7, <1>8, InFromParam DEF ParamsFollow
<1>10. \A q \in FromParam(p) : ~q.client
  <2> TAKE q \in FromParam(p)
  <2>1. PICK o \in Ops : \E s \in o.segments : Head(s) = p /\ q = ParamFor(o, s)
    BY InFromParam
  <2>2. q.client = o.client
    BY <2>1, ClientField
  <2> QED BY <1>3, <2>1, <2>2, Begins
<1>11. OptionsFollow'
  <2> DEFINE Fields(qs) == {q.name : q \in {r \in qs : ~r.client /\ r.optional /\ ~OptionalContentType(r)}}
  <2>1. options = Fields(params)
    BY <1>7 DEF OptionsFollow
  <2>2. options' = options \cup Fields(FromParam(p))
    BY <1>6, <1>10
  <2>3. Fields(params \cup FromParam(p)) = Fields(params) \cup Fields(FromParam(p))
    OBVIOUS
  <2>4. options' = Fields(params')
    BY <1>5, <2>1, <2>2, <2>3
  <2> QED BY <2>4 DEF OptionsFollow, OptionalContentType
<1> QED BY <1>1, <1>2, <1>3, <1>9, <1>11 DEF ParamsInv

\* A parameter of the client is named after the field it has there.
LEMMA ClientParam ==
    ASSUME method \in Methods, NEW o \in Ops, o.client
    PROVE  ~Skipped(o) /\ \E s \in o.segments : o.segments = {s} /\ ParamFor(o, s) = Adapted(o, o, NoGroup)
<1>1. PICK s \in o.segments : TRUE
  <2>1. WellFormed(method)
    BY MethodAssumption
  <2>2. o.segments # {}
    BY <2>1 DEF WellFormed, Ops
  <2> QED BY <2>2
<1>2. ~Skipped(o) /\ Len(s) = 1 /\ o.kind # "body" /\ o.optional = Last(s).optional
  BY Described DEF IsSegment
<1>3. ~IsPart(o, s)
  BY <1>2 DEF IsPart, IsSpread
<1>4. o.segments = {s}
  BY <1>3, OneSegment
<1>5. Cardinality(o.segments) = 1
  BY <1>4, FS_Singleton
<1>6. ParamName(o) = Last(s).name
  BY <1>4, <1>5 DEF ParamName
<1>7. ParamFor(o, s) = RustParam(o, Last(s).name, o.kind, Last(s).optional, NoGroup)
  BY <1>2, <1>3 DEF ParamFor
<1>8. Adapted(o, o, NoGroup) = RustParam(o, Last(s).name, o.kind, Last(s).optional, NoGroup)
  BY <1>2, <1>6 DEF Adapted
<1> QED BY <1>2, <1>4, <1>7, <1>8

LEMMA AdaptClientParamsKeeps ==
    ASSUME ParamsInv, AdaptClientParams
    PROVE  ParamsInv'
<1> DEFINE added == {Adapted(o, o, NoGroup) : o \in {c \in Ops : c.client}}
<1>1. /\ pc = "adapt" /\ todo = {} /\ pc' = "emit"
      /\ method' = method /\ todo' = todo /\ options' = options /\ Ops' = Ops
      /\ params' = params \cup added
  <2>1. params' = params \cup added
    BY Zenon DEF AdaptClientParams
  <2> HIDE DEF added
  <2> QED BY <2>1 DEF AdaptClientParams, Ops
<1>2. method \in Methods /\ ParamsFollow /\ OptionsFollow
  <2> HIDE DEF added
  <2> QED BY <1>1 DEF ParamsInv
<1>3. \A q : q \in added <=> \E o \in Ops : o.client /\ q = Adapted(o, o, NoGroup)
  OBVIOUS
<1>4. \A q : q \in added <=> \E o \in Ops : o.client /\ \E s \in o.segments : q = ParamFor(o, s)
  <2> HIDE DEF added
  <2> QED BY <1>2, <1>3, ClientParam
<1> HIDE DEF added
<1>5. \A o \in Ops : \A s \in o.segments : IsSettled(o, s)' <=> IsSettled(o, s) \/ o.client
  BY <1>1, <1>2, ClientParam DEF IsSettled
<1>6. ParamsFollow'
  BY <1>1, <1>2, <1>4, <1>5 DEF ParamsFollow
<1>7. \A q \in added : q.client
  BY <1>4, ClientField
<1>8. OptionsFollow'
  <2>1. {r \in params : ~r.client /\ r.optional /\ ~OptionalContentType(r)}
          = {r \in params' : ~r.client /\ r.optional /\ ~OptionalContentType(r)}
    BY <1>1, <1>7
  <2> QED BY <1>1, <1>2, <2>1 DEF OptionsFollow
<1> QED BY <1>1, <1>2, <1>6, <1>8 DEF ParamsInv

\* The emitted code changes nothing of this.
LEMMA ParamsKept ==
    ASSUME ParamsInv, UNCHANGED <<method, todo, params, options>>,
           pc = "adapt" => pc' = "adapt" \/ pc' = "failed", pc # "adapt" => pc' # "adapt",
           pc = "failed" => pc' = "failed"
    PROVE  ParamsInv'
<1>1. Ops' = Ops
  BY DEF Ops
<1>2. CASE pc' = "failed"
  BY <1>2 DEF ParamsInv
<1>3. CASE pc' # "failed"
  <2>1. pc # "failed" /\ (pc = "adapt" <=> pc' = "adapt")
    BY <1>3
  <2>2. \A o, s : IsSettled(o, s)' <=> IsSettled(o, s)
    BY <1>1, <2>1 DEF IsSettled
  <2>3. ParamsFollow'
    BY <1>1, <2>1, <2>2 DEF ParamsInv, ParamsFollow
  <2>4. OptionsFollow'
    BY <2>1 DEF ParamsInv, OptionsFollow
  <2> QED BY <2>1, <2>3, <2>4 DEF ParamsInv
<1> QED BY <1>2, <1>3

LEMMA ParamsStep == ASSUME ParamsInv, [Next]_vars PROVE ParamsInv'
<1>1. CASE AdaptParam
  BY <1>1, AdaptParamKeeps
<1>2. CASE AdaptClientParams
  BY <1>2, AdaptClientParamsKeeps
<1>3. CASE CannotAdapt \/ Call \/ Check \/ ConstructPath \/ ConstructQuery
             \/ ApplyHeaders \/ SetBody \/ Over \/ UNCHANGED vars
  <2>1. /\ UNCHANGED <<method, todo, params, options>>
        /\ pc = "adapt" => pc' = "adapt" \/ pc' = "failed"
        /\ pc # "adapt" => pc' # "adapt"
        /\ pc = "failed" => pc' = "failed"
    BY <1>3 DEF CannotAdapt, Fail, Call, Check, ConstructPath, ConstructQuery,
                ApplyHeaders, SetBody, Over, vars
  <2> QED BY <2>1, ParamsKept
<1> QED BY <1>1, <1>2, <1>3 DEF Next

\* The parameters of the Rust method are what the operation and the signature
\* ask for: one for each segment that is adapted, and no other (adaptMethod).
THEOREM ParamsAreThoseOfSegments == Spec => []ParamsInv
<1>1. Init => ParamsInv
  BY ParamsInit
<1>2. ParamsInv /\ [Next]_vars => ParamsInv'
  BY ParamsStep
<1> QED BY <1>1, <1>2, PTL DEF Spec
----------------------------------------------------------------------------
(* The emitted code compiles, and reads whatever a caller sets. *)

LEMMA ParamsExact ==
    ASSUME ParamsInv, pc \notin {"adapt", "failed"}
    PROVE  /\ method \in Methods
           /\ \A q : q \in params <=> \E o \in Ops : ~Skipped(o) /\ \E s \in o.segments : q = ParamFor(o, s)
           /\ \A n : n \in options <=>
                 \E q \in params : n = q.name /\ ~q.client /\ q.optional /\ ~OptionalContentType(q)
<1>1. method \in Methods /\ ParamsFollow /\ OptionsFollow /\ todo = {}
  BY DEF ParamsInv
<1>2. \A o \in Ops : \A s \in o.segments : IsSettled(o, s) <=> ~Skipped(o)
  BY <1>1 DEF IsSettled
<1>3. \A q : q \in params <=> \E o \in Ops : ~Skipped(o) /\ \E s \in o.segments : q = ParamFor(o, s)
  BY <1>1, <1>2 DEF ParamsFollow
<1>4. \A n : n \in options <=>
         \E q \in params : n = q.name /\ ~q.client /\ q.optional /\ ~OptionalContentType(q)
  BY <1>1 DEF OptionsFollow
<1> QED BY <1>1, <1>3, <1>4

\* What is known of a parameter from the segment it is for.
LEMMA ParamFacts ==
    ASSUME method \in Methods, Emittable(method), NEW o \in Ops, NEW s \in o.segments,
           NEW q, q = ParamFor(o, s)
    PROVE  /\ q.kind \in {"path", "query", "header", "body", "partialBody"}
           /\ q.kind = "path" /\ q.optional => ~q.client /\ ~IsDirect
           /\ q.kind \in {"body", "partialBody"} => ~q.client
           /\ q.kind = "partialBody" => q.group = NoGroup
           /\ q.kind = "body" /\ ~q.optional => q.group = NoGroup
           /\ q.client /\ ~q.optional => ~q.each
           /\ OptionalContentType(q) => q.constant
           /\ q.group # NoGroup => ~q.client /\ ~q.optional
<1>1. /\ q.name = Last(s).name /\ q.op = o.name
      /\ q.kind = IF IsPart(o, s) THEN "partialBody" ELSE o.kind
      /\ q.group = IF Len(s) = 2 /\ ~Last(s).optional THEN Head(s).name ELSE NoGroup
  BY ParamFields
<1>2. q.client = o.client /\ q.optional = Last(s).optional /\ q.each = o.each
  BY Zenon, ParamFields
<1>3. q.constant <=> o.type = "constant"
  BY ParamFields
<1>4. /\ o.kind = "path" /\ Last(s).optional => ~o.client /\ ~IsDirect
      /\ o.kind = "body" /\ Len(s) = 2 => Last(s).optional
      /\ o.client /\ o.each => o.optional
      /\ o.kind = "header" /\ o.name = "content-type" /\ Last(s).optional => o.type = "constant"
  BY DEF Emittable, Ops, IsDirect
<1>5. o.kind \in {"path", "query", "header", "body"}
  BY Described DEF Operations
<1>6. IsPart(o, s) => o.kind = "body" /\ Len(s) = 1
  BY DEF IsPart, IsSpread
<1>7. o.client => Len(s) = 1 /\ o.kind # "body" /\ (o.optional <=> Last(s).optional)
  BY Described DEF IsSegment
<1>8. OptionalContentType(q) => q.constant
  BY <1>1, <1>2, <1>3, <1>4 DEF OptionalContentType
<1>9. q.group # NoGroup => Len(s) = 2 /\ ~Last(s).optional
  BY <1>1
<1> QED BY <1>1, <1>2, <1>4, <1>5, <1>6, <1>7, <1>8, <1>9

\* What is in scope.
LEMMA OptionInScope ==
    ASSUME ParamsInv, pc = "emit", NEW q \in params, ~q.client, q.optional, ~OptionalContentType(q)
    PROVE  Ref("options", q.name) \in Scope
<1>1. q.name \in options
  BY ParamsExact
<1> QED BY <1>1 DEF Scope

LEMMA FieldInScope ==
    ASSUME NEW q \in params, q.client
    PROVE  Ref("self", q.name) \in Scope
  BY DEF Scope

LEMMA ArgumentInScope ==
    ASSUME NEW q \in params, ~q.client, ~q.optional, ~q.constant
    PROVE  Qualified(q) \in Scope
<1>1. CASE q.group = NoGroup
  <2>1. Qualified(q) = Ref("param", q.name)
    BY <1>1 DEF Qualified
  <2>2. Ref("param", q.name) \in Signature
    BY <1>1 DEF Signature
  <2> QED BY <2>1, <2>2 DEF Scope
<1>2. CASE q.group # NoGroup
  <2>1. Qualified(q) = Ref("param", q.group)
    BY <1>2 DEF Qualified
  <2>2. Ref("param", q.group) \in Signature
    BY <1>2 DEF Signature
  <2> QED BY <2>1, <2>2 DEF Scope
<1> QED BY <1>1, <1>2

\* The value of a required parameter is one of the client or of the signature.
LEMMA ValueInScope ==
    ASSUME NEW q \in params, ~q.optional, ~q.constant, ~(q.client /\ q.each)
    PROVE  Value(q) \in Scope
  BY FieldInScope, ArgumentInScope DEF Value

LEMMA ReadsInScope ==
    ASSUME ParamsInv, pc = "emit", Emittable(method), NEW q \in params
    PROVE  Reads(q) \subseteq Scope
<1>1. PICK o \in Ops : \E s \in o.segments : q = ParamFor(o, s)
  BY ParamsExact
<1>2. PICK s \in o.segments : q = ParamFor(o, s)
  BY <1>1
<1>3. /\ q.kind \in {"path", "query", "header", "body", "partialBody"}
      /\ q.kind = "path" /\ q.optional => ~q.client /\ ~IsDirect
      /\ q.kind \in {"body", "partialBody"} => ~q.client
      /\ q.kind = "partialBody" => q.group = NoGroup
      /\ q.kind = "body" /\ ~q.optional => q.group = NoGroup
      /\ q.client /\ ~q.optional => ~q.each
      /\ OptionalContentType(q) => q.constant
  BY <1>2, ParamFacts, ParamsExact
<1>4. ~q.constant /\ q.optional /\ ~q.client => Ref("options", q.name) \in Scope
  BY <1>3, OptionInScope
<1>5. ~q.constant /\ ~q.optional => Value(q) \in Scope
  BY <1>3, ValueInScope
<1>6. ~q.constant /\ ~q.optional /\ q.kind \in {"body", "partialBody"} => Ref("param", q.name) \in Scope
  <2>1. q.group = NoGroup => Qualified(q) = Ref("param", q.name)
    BY DEF Qualified
  <2> QED BY <1>3, <2>1, ArgumentInScope
<1>7. CASE q.constant
  <2>1. Reads(q) = {}
    BY <1>7, Zenon DEF Reads
  <2> QED BY <2>1
<1>8. CASE ~q.constant /\ q.kind = "path"
  BY <1>3, <1>4, <1>5, <1>8 DEF Reads, PathRef
<1>9. CASE ~q.constant /\ q.kind = "partialBody"
  BY <1>3, <1>4, <1>6, <1>9 DEF Reads
<1>10. CASE ~q.constant /\ q.kind = "body"
  BY <1>3, <1>4, <1>6, <1>10 DEF Reads, Guarded
<1>11. CASE ~q.constant /\ q.kind \in {"query", "header"}
  <2>1. Reads(q) = {Guarded(q, Value(q))}
    BY <1>11 DEF Reads
  <2> QED BY <1>4, <1>5, <1>11, <2>1, FieldInScope DEF Guarded
<1> QED BY <1>3, <1>7, <1>8, <1>9, <1>10, <1>11

\* The parameters of the signature and the fields of the options are read.
LEMMA ArgumentIsRead ==
    ASSUME ParamsInv, pc = "emit", Emittable(method), NEW q \in params, ~q.client, ~q.optional, ~q.constant
    PROVE  Qualified(q) \in Reads(q)
<1>1. PICK o \in Ops : \E s \in o.segments : q = ParamFor(o, s)
  BY ParamsExact
<1>2. /\ q.kind \in {"path", "query", "header", "body", "partialBody"}
      /\ q.kind \in {"body", "partialBody"} => q.group = NoGroup
  BY <1>1, ParamFacts, ParamsExact
<1>3. Value(q) = Qualified(q)
  BY DEF Value
<1>4. q.group = NoGroup => Qualified(q) = Ref("param", q.name)
  BY DEF Qualified
<1>5. CASE q.kind = "path"
  BY <1>3, <1>5 DEF Reads, PathRef
<1>6. CASE q.kind \in {"body", "partialBody"}
  BY <1>2, <1>4, <1>6 DEF Reads, Guarded
<1>7. CASE q.kind \in {"query", "header"}
  BY <1>3, <1>7 DEF Reads, Guarded
<1> QED BY <1>2, <1>5, <1>6, <1>7

LEMMA OptionIsRead ==
    ASSUME ParamsInv, pc = "emit", Emittable(method), NEW q \in params, ~q.client, q.optional, ~q.constant
    PROVE  Ref("options", q.name) \in Reads(q)
<1>1. PICK o \in Ops : \E s \in o.segments : q = ParamFor(o, s)
  BY ParamsExact
<1>2. /\ q.kind \in {"path", "query", "header", "body", "partialBody"}
      /\ q.kind = "path" => ~IsDirect
  BY <1>1, ParamFacts, ParamsExact
<1>3. CASE q.kind = "path"
  BY <1>2, <1>3 DEF Reads, PathRef
<1>4. CASE q.kind = "partialBody"
  BY <1>4 DEF Reads
<1>5. CASE q.kind \in {"query", "header", "body"}
  BY <1>5 DEF Reads, Guarded
<1> QED BY <1>2, <1>3, <1>4, <1>5

LEMMA LiteralFacts ==
    ASSUME method \in Methods, LiteralsRequired(method), NEW o \in Ops, NEW s \in o.segments,
           NEW q, q = ParamFor(o, s), q.constant, ~q.client
    PROVE  q.group = NoGroup /\ (q.optional => OptionalContentType(q))
<1>1. /\ q.op = o.name
      /\ q.kind = IF IsPart(o, s) THEN "partialBody" ELSE o.kind
      /\ q.group = IF Len(s) = 2 /\ ~Last(s).optional THEN Head(s).name ELSE NoGroup
  BY ParamFields
<1>2. o.client = q.client /\ Last(s).optional = q.optional
  BY Zenon, ParamFields
<1>3. o.type = "constant"
  BY ParamFields
<1>4. Len(s) = 1 /\ (Last(s).optional => o.kind = "header" /\ o.name = "content-type")
  BY <1>2, <1>3 DEF LiteralsRequired, Ops
<1>5. IsPart(o, s) => o.kind = "body"
  BY DEF IsPart, IsSpread
<1> QED BY <1>1, <1>2, <1>4, <1>5 DEF OptionalContentType

LEMMA OptionsAreRequired ==
    ASSUME ParamsInv, pc = "emit", Emittable(method), LiteralsRequired(method)
    PROVE  Signature \cup {Ref("options", n) : n \in options} \subseteq UNION {Reads(q) : q \in params}
<1>1. \A q \in params : q.constant /\ ~q.client =>
         q.group = NoGroup /\ (q.optional => OptionalContentType(q))
  BY ParamsExact, LiteralFacts
<1>2. \A q \in params : q.group # NoGroup => ~q.client /\ ~q.optional
  BY ParamsExact, ParamFacts
<1>3. ASSUME NEW q \in params, ~q.client, ~q.optional, q.group = NoGroup, ~q.constant
      PROVE  Ref("param", q.name) \in UNION {Reads(r) : r \in params}
  <2>1. Qualified(q) = Ref("param", q.name)
    BY <1>3 DEF Qualified
  <2>2. Ref("param", q.name) \in Reads(q)
    BY <1>3, <2>1, ArgumentIsRead
  <2> QED BY <2>2
<1>4. ASSUME NEW q \in params, q.group # NoGroup
      PROVE  Ref("param", q.group) \in UNION {Reads(r) : r \in params}
  <2>1. ~q.client /\ ~q.optional /\ ~q.constant
    BY <1>1, <1>2, <1>4
  <2>2. Qualified(q) = Ref("param", q.group)
    BY <1>4 DEF Qualified
  <2>3. Ref("param", q.group) \in Reads(q)
    BY <2>1, <2>2, ArgumentIsRead
  <2> QED BY <2>3
<1>5. ASSUME NEW n \in options
      PROVE  Ref("options", n) \in UNION {Reads(r) : r \in params}
  <2>1. PICK q \in params : n = q.name /\ ~q.client /\ q.optional /\ ~OptionalContentType(q)
    BY ParamsExact
  <2>2. ~q.constant
    BY <1>1, <2>1
  <2>3. Ref("options", n) \in Reads(q)
    BY <2>1, <2>2, OptionIsRead
  <2> QED BY <2>3
<1>6. \A x \in Signature :
         \/ \E q \in params : ~q.client /\ ~q.optional /\ q.group = NoGroup /\ ~q.constant /\ x = Ref("param", q.name)
         \/ \E q \in params : q.group # NoGroup /\ x = Ref("param", q.group)
  BY DEF Signature
<1>7. Signature \subseteq UNION {Reads(r) : r \in params}
  BY <1>3, <1>4, <1>6
<1>8. {Ref("options", n) : n \in options} \subseteq UNION {Reads(r) : r \in params}
  BY <1>5
<1> QED BY <1>7, <1>8

LEMMA OptionsAreOptional ==
    ASSUME ParamsInv, pc = "emit", Emittable(method),
           NEW q \in params, NEW s \in SegmentsOf(q), ~q.client, ~q.constant
    PROVE  Last(s).optional <=> q.name \in options
<1>1. PICK o \in Ops : \E t \in o.segments : q = ParamFor(o, t)
  BY ParamsExact
<1>2. PICK t \in o.segments : q = ParamFor(o, t)
  BY <1>1
<1>3. t = s
  BY <1>2, SegmentOfParam, ParamsExact
<1>4. q.name = Last(s).name /\ q.optional = Last(s).optional
  BY <1>2, <1>3, Zenon, ParamFields
<1>5. ~OptionalContentType(q)
  BY <1>2, ParamFacts, ParamsExact
<1>6. ASSUME q.name \in options PROVE Last(s).optional
  <2>1. PICK r \in params : q.name = r.name /\ ~r.client /\ r.optional
    BY <1>6, ParamsExact
  <2>2. PICK p \in Ops : \E u \in p.segments : r = ParamFor(p, u)
    BY ParamsExact
  <2>3. PICK u \in p.segments : r = ParamFor(p, u)
    BY <2>2
  <2>4. r.name = Last(u).name /\ r.optional = Last(u).optional
    <3>1. ParamFor(p, u).name = Last(u).name
      BY ParamFields
    <3> QED BY <2>3, <3>1, OptionalField
  <2>5. s \in o.segments /\ Last(u).name = Last(s).name
    BY <1>3, <1>4, <2>1, <2>4
  <2>6. u = s
    BY <2>5, SameSegment, ParamsExact
  <2> QED BY <2>1, <2>4, <2>6
<1>7. q.optional => q.name \in options
  BY <1>5, ParamsExact
<1> QED BY <1>4, <1>6, <1>7

\* A method that the emitter can emit reads nothing that is not in scope
\* (getMethodParamsCountAndSig, emitMethodOptions, getParamValueHelper).
THEOREM EmittedMethodCompiles ==
    ASSUME \A m \in Methods : Emittable(m)
    PROVE  Spec => []EmittedCompiles
<1>1. ParamsInv => EmittedCompiles
  <2> SUFFICES ASSUME ParamsInv, pc = "emit" PROVE Compiles
    BY DEF EmittedCompiles
  <2>1. Emittable(method)
    BY DEF ParamsInv
  <2> QED BY <2>1, ReadsInScope DEF Compiles
<1> QED BY <1>1, ParamsAreThoseOfSegments, PTL

\* If literals are required too, a caller leaves out exactly what the signature
\* says is optional, and the method reads whatever he sets (processAdaptedParam).
THEOREM EveryOptionMatters ==
    ASSUME \A m \in Methods : Emittable(m) /\ LiteralsRequired(m)
    PROVE  Spec => []OptionsMatter
<1>1. ParamsInv => OptionsMatter
  <2> SUFFICES ASSUME ParamsInv, pc = "emit" PROVE OptionsMatter
    BY DEF OptionsMatter
  <2>1. Emittable(method) /\ LiteralsRequired(method)
    BY DEF ParamsInv
  <2> QED BY <2>1, OptionsAreRequired, OptionsAreOptional DEF OptionsMatter
<1> QED BY <1>1, ParamsAreThoseOfSegments, PTL
----------------------------------------------------------------------------
(* What is sent for an operation. *)

LEMMA ParamIdentity ==
    ASSUME method \in Methods, NEW o \in Ops, NEW p \in Ops,
           NEW s \in o.segments, NEW t \in p.segments, ParamFor(o, s) = ParamFor(p, t)
    PROVE  o = p /\ s = t
<1>1. Last(s).name = Last(t).name
  BY ParamFields
<1> QED BY <1>1, SameSegment

\* The parameters of an operation among some.
LEMMA ParamsOfOperation ==
    ASSUME ParamsInv, pc \notin {"adapt", "failed"}, NEW qs, qs \subseteq params, NEW o \in Ops
    PROVE  \A q : q \in qs /\ q.op = o.name <=> q \in qs /\ \E s \in o.segments : q = ParamFor(o, s)
<1>1. \A p \in Ops : \A s \in p.segments : ParamFor(p, s).op = p.name
  BY ParamFields
<1>2. \A q \in qs : \E p \in Ops : \E s \in p.segments : q = ParamFor(p, s)
  BY ParamsExact
<1>3. \A p \in Ops : p.name = o.name => p = o
  BY SameOperation, ParamsExact
<1> QED BY <1>1, <1>2, <1>3

LEMMA WithDomain == ASSUME NEW sent PROVE DOMAIN With(sent) = DOMAIN request
  BY DEF With

LEMMA WithNone ==
    ASSUME ParamsInv, pc \notin {"adapt", "failed"}, NEW sent, DOMAIN sent \subseteq params,
           NEW o \in Ops, o.name \in DOMAIN request,
           \A s \in o.segments : ParamFor(o, s) \notin DOMAIN sent
    PROVE  With(sent)[o.name] = [s \in DOMAIN request[o.name] |-> request[o.name][s]]
<1> DEFINE qs == {q \in DOMAIN sent : q.op = o.name}
<1>1. qs = {}
  BY ParamsOfOperation
<1>2. With(sent)[o.name] =
        [s \in DOMAIN request[o.name] \cup UNION {SegmentsOf(q) : q \in qs} |->
            IF \E q \in qs : s \in SegmentsOf(q)
            THEN sent[CHOOSE q \in qs : s \in SegmentsOf(q)][s] ELSE request[o.name][s]]
  BY DEF With
<1> HIDE DEF qs
<1>3. UNION {SegmentsOf(q) : q \in qs} = {} /\ \A s : ~\E q \in qs : s \in SegmentsOf(q)
  BY <1>1
<1> QED BY <1>2, <1>3

LEMMA WithAll ==
    ASSUME ParamsInv, pc \notin {"adapt", "failed"}, NEW sent, DOMAIN sent \subseteq params,
           NEW o \in Ops, o.name \in DOMAIN request, request[o.name] = Promise!NotSent,
           \A s \in o.segments : ParamFor(o, s) \in DOMAIN sent
    PROVE  With(sent)[o.name] = [s \in o.segments |-> sent[ParamFor(o, s)][s]]
<1> DEFINE qs == {q \in DOMAIN sent : q.op = o.name}
<1>1. \A q : q \in qs <=> \E s \in o.segments : q = ParamFor(o, s)
  BY ParamsOfOperation
<1>2. With(sent)[o.name] =
        [s \in DOMAIN request[o.name] \cup UNION {SegmentsOf(q) : q \in qs} |->
            IF \E q \in qs : s \in SegmentsOf(q)
            THEN sent[CHOOSE q \in qs : s \in SegmentsOf(q)][s] ELSE request[o.name][s]]
  BY DEF With
<1> HIDE DEF qs
<1>3. \A s \in o.segments : SegmentsOf(ParamFor(o, s)) = {s}
  BY SegmentOfParam, ParamsExact
<1>4. \A q \in qs : \A s : s \in SegmentsOf(q) <=> s \in o.segments /\ q = ParamFor(o, s)
  BY <1>1, <1>3, ParamIdentity, ParamsExact
<1>5. \A s : s \in UNION {SegmentsOf(q) : q \in qs} <=> s \in o.segments
  BY <1>1, <1>4
<1>6. DOMAIN request[o.name] \cup UNION {SegmentsOf(q) : q \in qs} = o.segments
  <2>1. DOMAIN request[o.name] = {}
    BY DEF Promise!NotSent
  <2> QED BY <2>1, <1>5
<1>7. ASSUME NEW s \in o.segments
      PROVE  /\ \E q \in qs : s \in SegmentsOf(q)
             /\ (CHOOSE q \in qs : s \in SegmentsOf(q)) = ParamFor(o, s)
  BY <1>1, <1>4
<1> QED BY <1>2, <1>6, <1>7

\* What a parameter has, and what is sent for it.
LEMMA SentFacts ==
    ASSUME method \in Methods, NEW o \in Ops, NEW s \in o.segments
    PROVE  /\ Has(ParamFor(o, s)) <=> given[s] # "absent"
           /\ Sent(ParamFor(o, s)) = [t \in {s} |-> IF o.type = "constant" THEN "some" ELSE given[t]]
<1>1. SegmentsOf(ParamFor(o, s)) = {s}
  BY SegmentOfParam
<1>2. ParamFor(o, s).constant <=> o.type = "constant"
  BY ParamFields
<1>3. Has(ParamFor(o, s)) <=> given[s] # "absent"
  BY <1>1 DEF Has
<1>4. Sent(ParamFor(o, s)) = [t \in {s} |-> IF o.type = "constant" THEN "some" ELSE given[t]]
  BY <1>1, <1>2 DEF Sent
<1> QED BY <1>3, <1>4
LEMMA KindFacts ==
    ASSUME method \in Methods, NEW o \in Ops, NEW s \in o.segments
    PROVE  /\ o.kind \in {"path", "query", "header", "body"}
           /\ IsPart(o, s) => o.kind = "body" /\ o.type # "constant" /\ ~o.optional
           /\ ~IsPart(o, s) => o.segments = {s}
           /\ ParamFor(o, s).kind = IF IsPart(o, s) THEN "partialBody" ELSE o.kind
           /\ s \in Segments
<1>1. o.kind \in {"path", "query", "header", "body"}
  BY Described DEF Operations
<1>2. IsPart(o, s) => o.kind = "body" /\ o.type # "constant"
  BY DEF IsPart, IsSpread, Scalars
<1>3. IsPart(o, s) => ~o.optional
  BY Described DEF IsSegment
<1>4. ~IsPart(o, s) => o.segments = {s}
  BY OneSegment
<1>5. ParamFor(o, s).kind = IF IsPart(o, s) THEN "partialBody" ELSE o.kind
  BY ParamFields
<1>6. s \in Segments
  BY DEF Segments
<1> QED BY <1>1, <1>2, <1>3, <1>4, <1>5, <1>6

LEMMA InParams ==
    ASSUME ParamsInv, pc \notin {"adapt", "failed"}, NEW o \in Ops, NEW s \in o.segments
    PROVE  ParamFor(o, s) \in params <=> ~Skipped(o)
  BY ParamsExact, ParamIdentity

LEMMA InKind ==
    ASSUME ParamsInv, pc \notin {"adapt", "failed"}, NEW o \in Ops, NEW s \in o.segments, NEW k
    PROVE  ParamFor(o, s) \in Of({k}) <=>
              ~Skipped(o) /\ k = (IF IsPart(o, s) THEN "partialBody" ELSE o.kind)
<1>1. ParamFor(o, s).kind = IF IsPart(o, s) THEN "partialBody" ELSE o.kind
  BY KindFacts, ParamsExact
<1>2. ParamFor(o, s) \in Of({k}) <=> ParamFor(o, s) \in params /\ ParamFor(o, s).kind = k
  BY DEF Of
<1> QED BY <1>1, <1>2, InParams

\* An operation that is left out, and one of which every parameter is sent.
LEMMA Untouched ==
    ASSUME ParamsInv, pc \notin {"adapt", "failed"}, RequestInv, NEW sent, DOMAIN sent \subseteq params,
           NEW o \in Ops, \A s \in o.segments : ParamFor(o, s) \notin DOMAIN sent
    PROVE  With(sent)[o.name] = request[o.name]
<1>1. o.name \in DOMAIN request
  BY DEF RequestInv
<1>2. \/ request[o.name] = Promise!NotSent
      \/ request[o.name] = Promise!Promised(o, given)
  BY DEF RequestInv
<1>3. request[o.name] = [s \in DOMAIN request[o.name] |-> request[o.name][s]]
  BY <1>2 DEF Promise!NotSent, Promise!Promised
<1> QED BY <1>1, <1>3, WithNone

LEMMA AllSent ==
    ASSUME ParamsInv, pc \notin {"adapt", "failed"}, RequestInv, NEW sent, DOMAIN sent \subseteq params,
           NEW o \in Ops, ~IsHandled(o), o.kind # "path",
           \A s \in o.segments : ParamFor(o, s) \in DOMAIN sent /\ sent[ParamFor(o, s)] = Sent(ParamFor(o, s)),
           o.segments = {} \/ ~Promise!IsLeftOut(o, given)
    PROVE  With(sent)[o.name] = Promise!Promised(o, given)
<1>1. o.name \in DOMAIN request /\ request[o.name] = Promise!NotSent
  BY DEF RequestInv
<1>2. With(sent)[o.name] = [s \in o.segments |-> sent[ParamFor(o, s)][s]]
  BY <1>1, WithAll
<1>3. ASSUME NEW s \in o.segments
      PROVE  sent[ParamFor(o, s)][s] = IF o.type = "constant" THEN "some" ELSE given[s]
  <2>1. sent[ParamFor(o, s)] = [t \in {s} |-> IF o.type = "constant" THEN "some" ELSE given[t]]
    BY SentFacts, ParamsExact
  <2> QED BY <2>1
<1>4. With(sent)[o.name] = [s \in o.segments |-> IF o.type = "constant" THEN "some" ELSE given[s]]
  BY <1>2, <1>3
<1>5. CASE o.segments = {}
  BY <1>4, <1>5 DEF Promise!Promised, Promise!NotSent
<1>6. CASE ~Promise!IsLeftOut(o, given)
  BY <1>4, <1>6 DEF Promise!Promised
<1> QED BY <1>5, <1>6

LEMMA NoneSent ==
    ASSUME ParamsInv, pc \notin {"adapt", "failed"}, RequestInv, NEW sent, DOMAIN sent \subseteq params,
           NEW o \in Ops, ~IsHandled(o),
           \A s \in o.segments : ParamFor(o, s) \notin DOMAIN sent,
           o.segments = {} \/ Promise!IsLeftOut(o, given)
    PROVE  With(sent)[o.name] = Promise!Promised(o, given)
<1>1. With(sent)[o.name] = request[o.name]
  BY Untouched
<1>2. request[o.name] = Promise!NotSent
  BY DEF RequestInv
<1>3. Promise!Promised(o, given) = Promise!NotSent
  BY DEF Promise!Promised, Promise!NotSent
<1> QED BY <1>1, <1>2, <1>3

\* A parameter of the query or a header is at hand unless it is left out.
LEMMA PresentExact ==
    ASSUME ParamsInv, pc \notin {"adapt", "failed"}, GivenInv, IsSupported(method),
           NEW o \in Ops, NEW s \in o.segments, o.kind \in {"query", "header"},
           ~Skipped(o), ~GoesWithBody(o)
    PROVE  Promise!IsLeftOut(o, given) <=>
              ~(ParamFor(o, s).constant \/ ~ParamFor(o, s).optional \/ Has(ParamFor(o, s)))
<1>1. o.segments = {s} /\ ~IsPart(o, s) /\ s \in Segments
  BY KindFacts, ParamsExact
<1>2. Last(s).optional => o.optional
  BY <1>1 DEF IsSupported, Overrides, Ops
<1>3. given[s] = "absent" => Last(s).optional
  BY <1>1 DEF GivenInv
<1>4. Has(ParamFor(o, s)) <=> given[s] # "absent"
  BY SentFacts, ParamsExact
<1>5. ParamFor(o, s).constant <=> o.type = "constant"
  BY ParamFields
<1>6. ParamFor(o, s).optional = Last(s).optional
  BY OptionalField
<1>7. Promise!IsLeftOut(o, given) <=> o.optional /\ o.type # "constant" /\ given[s] = "absent"
  BY <1>1 DEF Promise!IsLeftOut, Skipped, GoesWithBody
<1> QED BY <1>2, <1>3, <1>4, <1>5, <1>6, <1>7
----------------------------------------------------------------------------
(* The steps of the emitted method. *)

LEMMA CheckKeeps ==
    ASSUME ParamsInv, CallInv, Check
    PROVE  CallInv' /\ (pc' = "refused" => Promise!IsRefused(given))
<1> DEFINE Empty == \E q \in Of({"path"}) : NeedsCheck(q) /\ \E s \in SegmentsOf(q) : given[s] = "empty"
<1>1. /\ pc = "check" /\ pc' = IF Empty THEN "refused" ELSE "path"
      /\ method' = method /\ given' = given /\ request' = request /\ Ops' = Ops /\ Segments' = Segments
  BY DEF Check, Ops, Segments
<1>2. GivenInv /\ RequestInv
  BY <1>1 DEF CallInv, UnderWay
<1>3. ASSUME NEW o \in Ops, NEW s \in o.segments
      PROVE  ParamFor(o, s) \in Of({"path"}) /\ NeedsCheck(ParamFor(o, s)) /\ given[s] = "empty" <=>
                /\ o.kind = "path" /\ o.type = "text" /\ ~o.client /\ ~o.mayBeEmpty
                /\ ~Last(s).optional /\ given[s] = "empty"
  <2> DEFINE q == ParamFor(o, s)
  <2>1. q \in Of({"path"}) <=> ~Skipped(o) /\ "path" = (IF IsPart(o, s) THEN "partialBody" ELSE o.kind)
    BY <1>1, <1>3, InKind
  <2>2. q \in Of({"path"}) <=> o.kind = "path"
    BY <2>1, <1>1, <1>3, KindFacts DEF Skipped, ParamsInv
  <2>3. q.text <=> o.type = "text"
    BY ParamFields
  <2>4. q.client = o.client /\ q.mayBeEmpty = o.mayBeEmpty /\ q.optional = Last(s).optional
    BY ClientField, MayBeEmptyField, OptionalField
  <2> HIDE DEF q
  <2>5. NeedsCheck(q) <=> ~Last(s).optional /\ ~o.client /\ ~o.mayBeEmpty /\ o.type = "text"
    BY <2>3, <2>4 DEF NeedsCheck
  <2>6. q \in Of({"path"}) /\ NeedsCheck(q) /\ given[s] = "empty" <=>
                    /\ o.kind = "path" /\ o.type = "text" /\ ~o.client /\ ~o.mayBeEmpty
                    /\ ~Last(s).optional /\ given[s] = "empty"
    BY <2>2, <2>5
  <2> QED BY <2>6 DEF q
<1>4. Empty <=> \E o \in Ops : \E s \in o.segments :
                   ParamFor(o, s) \in Of({"path"}) /\ NeedsCheck(ParamFor(o, s)) /\ given[s] = "empty"
  <2>1. \A o \in Ops : \A s \in o.segments : SegmentsOf(ParamFor(o, s)) = {s}
    BY SegmentOfParam DEF ParamsInv
  <2>2. \A q \in Of({"path"}) : \E o \in Ops : \E s \in o.segments : q = ParamFor(o, s)
    BY <1>1, ParamsExact DEF Of
  <2> QED BY <2>1, <2>2
<1>5. Empty <=> Promise!IsRefused(given)
  <2> HIDE DEF Empty
  <2>1. Promise!IsRefused(given) <=>
          \E o \in Ops : \E s \in o.segments :
             /\ o.kind = "path" /\ o.type = "text" /\ ~o.client /\ ~o.mayBeEmpty
             /\ ~Last(s).optional /\ given[s] = "empty"
    BY DEF Promise!IsRefused, Ops, Promise!Last, Last
  <2> QED BY <1>3, <1>4, <2>1
<1> HIDE DEF Empty
<1>6. \A o \in Ops : ~IsHandled(o) /\ (pc' = "path" => ~IsHandled(o)')
  BY <1>1 DEF IsHandled
<1>7. CASE Empty
  BY <1>1, <1>5, <1>7 DEF CallInv, UnderWay
<1>8. CASE ~Empty
  <2>1. GivenInv'
    BY <1>1, <1>2 DEF GivenInv
  <2>2. RequestInv'
    BY <1>1, <1>2, <1>6, <1>8 DEF RequestInv, Promise!NotSent
  <2>3. ~Promise!IsRefused(given)'
    BY <1>1, <1>5, <1>8 DEF Promise!IsRefused
  <2> QED BY <1>1, <1>8, <2>1, <2>2, <2>3 DEF CallInv
<1> QED BY <1>7, <1>8

\* One step from what is handled to what is handled then.
LEMMA RequestKept ==
    ASSUME ParamsInv, pc \in UnderWay \ {"check"}, pc' \in UnderWay, CallInv,
           UNCHANGED <<method, todo, params, options, given>>,
           NEW sent, DOMAIN sent \subseteq params, request' = With(sent),
           \A o \in Ops : IF IsHandled(o)' /\ ~IsHandled(o)
                          THEN With(sent)[o.name] = Promise!Promised(o, given)
                          ELSE /\ IsHandled(o)' <=> IsHandled(o)
                               /\ \A s \in o.segments : ParamFor(o, s) \notin DOMAIN sent
    PROVE  CallInv'
<1>1. GivenInv /\ RequestInv /\ ~Promise!IsRefused(given) /\ pc \notin {"adapt", "failed"}
  BY DEF CallInv, UnderWay
<1>2. Ops' = Ops /\ Segments' = Segments
  BY DEF Ops, Segments
<1>3. GivenInv'
  BY <1>1, <1>2 DEF GivenInv
<1>4. ~Promise!IsRefused(given)'
  BY <1>1 DEF Promise!IsRefused
<1>5. DOMAIN request' = {o.name : o \in Ops'}
  BY <1>1, <1>2, WithDomain DEF RequestInv
<1>6. ASSUME NEW o \in Ops
      PROVE  request'[o.name] = IF IsHandled(o)' THEN Promise!Promised(o, given) ELSE Promise!NotSent
  <2>1. CASE IsHandled(o)' /\ ~IsHandled(o)
    BY <2>1
  <2>2. CASE ~(IsHandled(o)' /\ ~IsHandled(o))
    <3>1. request'[o.name] = request[o.name]
      BY <1>1, <2>2, Untouched
    <3>2. request[o.name] = IF IsHandled(o) THEN Promise!Promised(o, given) ELSE Promise!NotSent
      BY <1>1 DEF RequestInv
    <3> QED BY <2>2, <3>1, <3>2
  <2> QED BY <2>1, <2>2
<1>7. \A o \in Ops : Promise!Promised(o, given)' = Promise!Promised(o, given)
  BY DEF Promise!Promised, Promise!IsLeftOut, Promise!BodyGiven, Promise!NotSent
<1>8. RequestInv'
  BY <1>2, <1>5, <1>6, <1>7 DEF RequestInv, Promise!NotSent
<1> QED BY <1>3, <1>4, <1>8 DEF CallInv
\* A parameter of the path that may be absent is no literal.
LEMMA ReplacementExact ==
    ASSUME method \in Methods, GivenInv, IsSupported(method),
           NEW o \in Ops, NEW s \in o.segments, o.kind = "path"
    PROVE  Replacement(ParamFor(o, s))[s] =
              IF o.type = "constant" THEN "some" ELSE IF given[s] = "absent" THEN "empty" ELSE given[s]
<1> DEFINE q == ParamFor(o, s)
<1>1. Has(q) <=> given[s] # "absent"
  BY SentFacts
<1>2. Sent(q) = [t \in {s} |-> IF o.type = "constant" THEN "some" ELSE given[t]]
  BY SentFacts
<1>3. SegmentsOf(q) = {s}
  BY SegmentOfParam
<1> HIDE DEF q
<1>4. CASE given[s] # "absent"
  <2>1. Replacement(q) = Sent(q)
    BY <1>1, <1>4 DEF Replacement
  <2> QED BY <1>2, <1>4, <2>1 DEF q
<1>5. CASE given[s] = "absent"
  <2>1. Last(s).optional
    BY <1>5 DEF GivenInv, Segments
  <2>2. ~o.client
    BY <2>1 DEF IsSupported, Emittable, Ops
  <2>3. o.type # "constant"
    BY <2>1, <2>2 DEF IsSupported, LiteralsRequired, Ops
  <2>4. Replacement(q) = [t \in {s} |-> "empty"]
    BY <1>1, <1>3, <1>5 DEF Replacement
  <2>5. Replacement(q)[s] = "empty"
    BY <2>4
  <2> QED BY <1>5, <2>3, <2>5 DEF q
<1> QED BY <1>4, <1>5

LEMMA ConstructPathKeeps ==
    ASSUME ParamsInv, CallInv, IsSupported(method), ConstructPath
    PROVE  CallInv'
<1> DEFINE sent == [q \in Of({"path"}) |-> Replacement(q)]
<1>1. pc = "path" /\ pc' = "query" /\ UNCHANGED <<method, todo, params, options, given>>
  BY DEF ConstructPath
<1>2. request' = With(sent)
  BY DEF ConstructPath
<1>3. GivenInv /\ RequestInv /\ method \in Methods /\ pc \notin {"adapt", "failed"}
  BY <1>1 DEF CallInv, UnderWay, ParamsInv
<1>4. DOMAIN sent \subseteq params
  BY DEF Of
<1>5. \A o \in Ops : ~IsHandled(o) /\ (IsHandled(o)' <=> o.kind = "path")
  BY <1>1 DEF IsHandled
<1>6. ASSUME NEW o \in Ops, o.kind = "path"
      PROVE  With(sent)[o.name] = Promise!Promised(o, given)
  <2>1. ASSUME NEW s \in o.segments
        PROVE  /\ ParamFor(o, s) \in DOMAIN sent
               /\ sent[ParamFor(o, s)] = Replacement(ParamFor(o, s))
    BY <1>3, <1>6, InKind, KindFacts DEF Skipped
  <2> HIDE DEF sent
  <2>2. o.name \in DOMAIN request /\ request[o.name] = Promise!NotSent
    BY <1>3, <1>5 DEF RequestInv
  <2>3. With(sent)[o.name] = [s \in o.segments |-> sent[ParamFor(o, s)][s]]
    BY <1>3, <1>4, <2>1, <2>2, WithAll
  <2>4. \A s \in o.segments : sent[ParamFor(o, s)][s] =
           IF o.type = "constant" THEN "some" ELSE IF given[s] = "absent" THEN "empty" ELSE given[s]
    BY <1>3, <1>6, <2>1, ReplacementExact
  <2>5. ~Promise!IsLeftOut(o, given)
    BY <1>6 DEF Promise!IsLeftOut
  <2>6. Promise!Promised(o, given) =
           [s \in o.segments |->
               IF o.type = "constant" THEN "some" ELSE IF given[s] = "absent" THEN "empty" ELSE given[s]]
    BY <1>6, <2>5 DEF Promise!Promised
  <2> QED BY <2>3, <2>4, <2>6
<1>7. ASSUME NEW o \in Ops, o.kind # "path", NEW s \in o.segments
      PROVE  ParamFor(o, s) \notin DOMAIN sent
  BY <1>3, <1>7, InKind
<1> HIDE DEF sent
<1>8. \A o \in Ops : IF IsHandled(o)' /\ ~IsHandled(o)
                     THEN With(sent)[o.name] = Promise!Promised(o, given)
                     ELSE /\ IsHandled(o)' <=> IsHandled(o)
                          /\ \A s \in o.segments : ParamFor(o, s) \notin DOMAIN sent
  BY <1>5, <1>6, <1>7
<1>9. pc \in UnderWay \ {"check"} /\ pc' \in UnderWay
  BY <1>1 DEF UnderWay
<1> QED BY <1>1, <1>2, <1>4, <1>8, <1>9, RequestKept

\* The parameters of the query or the headers that are at hand.
LEMMA PresentSent ==
    ASSUME ParamsInv, pc \notin {"adapt", "failed"}, GivenInv, RequestInv, IsSupported(method),
           NEW o \in Ops, o.kind \in {"query", "header"}, ~Skipped(o), ~GoesWithBody(o), ~IsHandled(o),
           NEW qs, qs \subseteq params, \A s \in o.segments : ParamFor(o, s) \in qs
    PROVE  With([q \in Present(qs) |-> Sent(q)])[o.name] = Promise!Promised(o, given)
<1> DEFINE sent == [q \in Present(qs) |-> Sent(q)]
<1>1. DOMAIN sent = Present(qs) /\ DOMAIN sent \subseteq params
  BY DEF Present
<1>2. \A q \in Present(qs) : sent[q] = Sent(q)
  OBVIOUS
<1> HIDE DEF sent
<1>3. \A s \in o.segments : ParamFor(o, s) \in Present(qs) <=> ~Promise!IsLeftOut(o, given)
  <2> TAKE s \in o.segments
  <2>1. ParamFor(o, s) \in Present(qs) <=>
          (ParamFor(o, s).constant \/ ~ParamFor(o, s).optional \/ Has(ParamFor(o, s)))
    BY DEF Present
  <2> QED BY <2>1, PresentExact
<1>4. CASE ~Promise!IsLeftOut(o, given)
  <2>1. \A s \in o.segments : ParamFor(o, s) \in DOMAIN sent /\ sent[ParamFor(o, s)] = Sent(ParamFor(o, s))
    BY <1>1, <1>2, <1>3, <1>4
  <2> QED BY <1>1, <1>4, <2>1, AllSent DEF sent
<1>5. CASE Promise!IsLeftOut(o, given)
  <2>1. \A s \in o.segments : ParamFor(o, s) \notin DOMAIN sent
    BY <1>1, <1>3, <1>5
  <2> QED BY <1>1, <1>5, <2>1, NoneSent DEF sent
<1> QED BY <1>4, <1>5

LEMMA ConstructQueryKeeps ==
    ASSUME ParamsInv, CallInv, IsSupported(method), ConstructQuery
    PROVE  CallInv'
<1> DEFINE sent == [q \in Present(Of({"query"})) |-> Sent(q)]
<1>1. pc = "query" /\ pc' = "header" /\ UNCHANGED <<method, todo, params, options, given>>
  BY DEF ConstructQuery
<1>2. request' = With(sent)
  BY DEF ConstructQuery
<1>3. GivenInv /\ RequestInv /\ pc \notin {"adapt", "failed"}
  BY <1>1 DEF CallInv, UnderWay
<1>4. DOMAIN sent \subseteq Of({"query"}) /\ Of({"query"}) \subseteq params
  BY DEF Of, Present
<1>5. \A o \in Ops : /\ IsHandled(o) <=> o.kind = "path"
                     /\ IsHandled(o)' <=> o.kind \in {"path", "query"}
  BY <1>1 DEF IsHandled
<1> HIDE DEF sent
<1>6. ASSUME NEW o \in Ops, o.kind = "query"
      PROVE  With(sent)[o.name] = Promise!Promised(o, given)
  <2>1. ~Skipped(o) /\ ~GoesWithBody(o) /\ ~IsHandled(o)
    BY <1>5, <1>6 DEF Skipped, GoesWithBody
  <2>2. \A s \in o.segments : ParamFor(o, s) \in Of({"query"})
    BY <1>3, <1>6, <2>1, InKind, KindFacts DEF ParamsInv
  <2> QED BY <1>3, <1>4, <1>6, <2>1, <2>2, PresentSent DEF sent
<1>7. ASSUME NEW o \in Ops, o.kind # "query", NEW s \in o.segments
      PROVE  ParamFor(o, s) \notin DOMAIN sent
  BY <1>3, <1>4, <1>7, InKind
<1>8. \A o \in Ops : IF IsHandled(o)' /\ ~IsHandled(o)
                     THEN With(sent)[o.name] = Promise!Promised(o, given)
                     ELSE /\ IsHandled(o)' <=> IsHandled(o)
                          /\ \A s \in o.segments : ParamFor(o, s) \notin DOMAIN sent
  BY <1>5, <1>6, <1>7
<1>9. pc \in UnderWay \ {"check"} /\ pc' \in UnderWay
  BY <1>1 DEF UnderWay
<1> QED BY <1>1, <1>2, <1>4, <1>8, <1>9, RequestKept

\* The content type that goes with the body is that of an optional segment.
LEMMA ContentTypeExact ==
    ASSUME method \in Methods, IsSupported(method), NEW o \in Ops, NEW s \in o.segments
    PROVE  /\ OptionalContentType(ParamFor(o, s)) <=> GoesWithBody(o)
           /\ GoesWithBody(o) => o.type = "constant"
<1>1. ParamFor(o, s).op = o.name
  BY ParamFields
<1>2. ParamFor(o, s).optional = Last(s).optional
  BY OptionalField
<1>3. IsPart(o, s) => o.kind # "header"
  BY KindFacts
<1>4. ParamFor(o, s).kind = "header" <=> o.kind = "header"
  BY <1>3, KindFacts
<1>5. o.kind = "header" /\ o.name = "content-type" => (Last(s).optional <=> o.optional)
  BY <1>3 DEF IsSupported, Overrides, Ops
<1>6. o.kind = "header" /\ o.name = "content-type" /\ Last(s).optional => o.type = "constant"
  BY DEF IsSupported, Emittable, Ops
<1> QED BY <1>1, <1>2, <1>4, <1>5, <1>6 DEF OptionalContentType, GoesWithBody

LEMMA ApplyHeadersKeeps ==
    ASSUME ParamsInv, CallInv, IsSupported(method), ApplyHeaders
    PROVE  CallInv'
<1> DEFINE headers == {q \in Of({"header"}) : ~OptionalContentType(q)}
           sent == [q \in Present(headers) |-> Sent(q)]
<1>1. pc = "header" /\ pc' = "body" /\ UNCHANGED <<method, todo, params, options, given>>
  BY DEF ApplyHeaders
<1>2. request' = With(sent)
  BY DEF ApplyHeaders
<1>3. GivenInv /\ RequestInv /\ method \in Methods /\ pc \notin {"adapt", "failed"}
  BY <1>1 DEF CallInv, UnderWay, ParamsInv
<1>4. DOMAIN sent \subseteq headers /\ headers \subseteq params /\ DOMAIN sent \subseteq Of({"header"})
  BY DEF Of, Present
<1>5. \A o \in Ops : /\ IsHandled(o) <=> o.kind \in {"path", "query"}
                     /\ IsHandled(o)' <=> IsHandled(o) \/ (o.kind = "header" /\ ~GoesWithBody(o))
  BY <1>1 DEF IsHandled, GoesWithBody
<1> HIDE DEF sent
<1>6. ASSUME NEW o \in Ops, o.kind = "header", ~GoesWithBody(o)
      PROVE  With(sent)[o.name] = Promise!Promised(o, given)
  <2>1. ~IsHandled(o)
    BY <1>5, <1>6
  <2>2. CASE ~Skipped(o)
    <3>1. \A s \in o.segments : ParamFor(o, s) \in headers
      BY <1>3, <1>6, <2>2, InKind, KindFacts, ContentTypeExact
    <3> QED BY <1>3, <1>4, <1>6, <2>1, <2>2, <3>1, PresentSent DEF sent
  <2>3. CASE Skipped(o)
    <3>1. \A s \in o.segments : ParamFor(o, s) \notin DOMAIN sent
      BY <1>3, <1>4, <2>3, InKind
    <3>2. Promise!IsLeftOut(o, given)
      BY <2>3 DEF Skipped, Promise!IsLeftOut
    <3> QED BY <1>3, <1>4, <2>1, <3>1, <3>2, NoneSent
  <2> QED BY <2>2, <2>3
<1>7. ASSUME NEW o \in Ops, o.kind # "header" \/ GoesWithBody(o), NEW s \in o.segments
      PROVE  ParamFor(o, s) \notin DOMAIN sent
  <2>1. CASE o.kind # "header"
    BY <1>3, <1>4, <2>1, InKind
  <2>2. CASE GoesWithBody(o)
    BY <1>3, <1>4, <2>2, ContentTypeExact
  <2> QED BY <1>7, <2>1, <2>2
<1>8. \A o \in Ops : IF IsHandled(o)' /\ ~IsHandled(o)
                     THEN With(sent)[o.name] = Promise!Promised(o, given)
                     ELSE /\ IsHandled(o)' <=> IsHandled(o)
                          /\ \A s \in o.segments : ParamFor(o, s) \notin DOMAIN sent
  BY <1>5, <1>6, <1>7
<1>9. pc \in UnderWay \ {"check"} /\ pc' \in UnderWay
  BY <1>1 DEF UnderWay
<1>10. DOMAIN sent \subseteq params
  BY <1>4
<1> HIDE DEF headers
<1> QED BY <1>1, <1>2, <1>8, <1>9, <1>10, RequestKept
\* The body in one piece is given if it is sent, and the content type with it.
LEMMA WithWholeBody ==
    ASSUME ParamsInv, pc = "body", GivenInv, RequestInv, IsSupported(method),
           NEW b \in Ops, b.kind = "body", NEW s \in b.segments, ~IsPart(b, s)
    PROVE  /\ b.segments = {s}
           /\ Promise!BodyGiven(given) <=> given[s] # "absent"
           /\ WithBody = IF given[s] # "absent" THEN {ParamFor(b, s)} \cup ContentTypes ELSE {}
           /\ Promise!IsLeftOut(b, given) <=> given[s] = "absent"
<1> DEFINE q == ParamFor(b, s)
<1>1. b.segments = {s} /\ s \in Segments /\ method \in Methods
  BY KindFacts DEF ParamsInv
<1>2. \A o \in Ops : o.kind = "body" => o = b
  BY <1>1, SameOperation
<1>3. Of({"body"}) = {q}
  <2>1. q \in Of({"body"})
    BY InKind DEF Skipped
  <2>2. \A r \in Of({"body"}) : r \in params /\ \E o \in Ops : \E t \in o.segments : r = ParamFor(o, t)
    BY ParamsExact DEF Of
  <2>3. \A o \in Ops : \A t \in o.segments : ParamFor(o, t) \in Of({"body"}) => o.kind = "body"
    BY InKind
  <2>4. \A r \in Of({"body"}) : r = q
    BY <1>1, <1>2, <2>2, <2>3
  <2> QED BY <2>1, <2>4
<1>4. given[s] = "absent" => Last(s).optional /\ b.optional /\ b.type # "constant"
  <2>1. given[s] = "absent" => Last(s).optional
    BY <1>1 DEF GivenInv
  <2>2. Last(s).optional => b.optional
    BY DEF IsSupported, Overrides, Ops
  <2>3. ~b.client
    BY <1>1, Described DEF IsSegment
  <2>4. Last(s).optional => b.type # "constant"
    BY <2>3 DEF IsSupported, LiteralsRequired, Ops
  <2> QED BY <2>1, <2>2, <2>4
<1>5. q.optional = Last(s).optional /\ (q.constant <=> b.type = "constant")
  BY OptionalField, ParamFields
<1>6. Has(q) <=> given[s] # "absent"
  BY <1>1, SentFacts
<1> HIDE DEF q
<1>7. Present({q}) = IF given[s] # "absent" THEN {q} ELSE {}
  BY <1>4, <1>5, <1>6 DEF Present
<1>8. WithBody = IF given[s] # "absent" THEN {q} \cup ContentTypes ELSE {}
  BY <1>3, <1>7 DEF WithBody
<1>9. Promise!BodyGiven(given) <=> given[s] # "absent"
  BY <1>1, <1>2 DEF Promise!BodyGiven, Ops
<1>10. Promise!IsLeftOut(b, given) <=> given[s] = "absent"
  BY <1>1, <1>4 DEF Promise!IsLeftOut
<1> QED BY <1>1, <1>8, <1>9, <1>10 DEF q

LEMMA BodySent ==
    ASSUME ParamsInv, pc = "body", GivenInv, RequestInv, IsSupported(method),
           NEW b \in Ops, b.kind = "body", WithBody \subseteq params
    PROVE  With([q \in WithBody |-> Sent(q)])[b.name] = Promise!Promised(b, given)
<1> DEFINE sent == [q \in WithBody |-> Sent(q)]
<1>1. DOMAIN sent = WithBody /\ \A q \in WithBody : sent[q] = Sent(q)
  OBVIOUS
<1> HIDE DEF sent
<1>2. ~IsHandled(b) /\ ~Skipped(b) /\ method \in Methods
  BY DEF IsHandled, Skipped, ParamsInv
<1>3. CASE b.segments = {}
  <2>1. \A s \in b.segments : ParamFor(b, s) \notin DOMAIN sent
    BY <1>3
  <2> QED BY <1>1, <1>2, <1>3, <2>1, NoneSent DEF sent
<1>4. CASE \E s \in b.segments : ~IsPart(b, s)
  <2>1. PICK s \in b.segments : ~IsPart(b, s)
    BY <1>4
  <2>2. /\ b.segments = {s}
        /\ WithBody = IF given[s] # "absent" THEN {ParamFor(b, s)} \cup ContentTypes ELSE {}
        /\ Promise!IsLeftOut(b, given) <=> given[s] = "absent"
    BY <2>1, WithWholeBody
  <2>3. CASE given[s] = "absent"
    <3>1. \A t \in b.segments : ParamFor(b, t) \notin DOMAIN sent
      BY <1>1, <2>2, <2>3
    <3> QED BY <1>1, <1>2, <2>2, <2>3, <3>1, NoneSent DEF sent
  <2>4. CASE given[s] # "absent"
    <3>1. \A t \in b.segments : ParamFor(b, t) \in DOMAIN sent /\ sent[ParamFor(b, t)] = Sent(ParamFor(b, t))
      BY <1>1, <2>2, <2>4
    <3> QED BY <1>1, <1>2, <2>2, <2>4, <3>1, AllSent DEF sent
  <2> QED BY <2>3, <2>4
<1>5. CASE b.segments # {} /\ \A s \in b.segments : IsPart(b, s)
  <2>1. \A o \in Ops : o.kind = "body" => o = b
    BY <1>2, SameOperation
  <2>2. Of({"body"}) = {}
    <3>1. \A r \in Of({"body"}) : \E o \in Ops : \E t \in o.segments : r = ParamFor(o, t)
      BY ParamsExact DEF Of
    <3>2. \A o \in Ops : \A t \in o.segments : ParamFor(o, t) \notin Of({"body"})
      BY <1>5, <2>1, InKind
    <3> QED BY <3>1, <3>2
  <2>3. WithBody = Of({"partialBody"})
    BY <2>2 DEF WithBody, Present
  <2>4. \A s \in b.segments : ParamFor(b, s) \in WithBody
    BY <1>2, <1>5, <2>3, InKind
  <2>5. ~Promise!IsLeftOut(b, given)
    <3>1. ~b.optional
      BY <1>2, <1>5, KindFacts
    <3> QED BY <3>1 DEF Promise!IsLeftOut
  <2>6. \A s \in b.segments : ParamFor(b, s) \in DOMAIN sent /\ sent[ParamFor(b, s)] = Sent(ParamFor(b, s))
    BY <1>1, <2>4
  <2> QED BY <1>1, <1>2, <2>5, <2>6, AllSent DEF sent
<1> QED BY <1>3, <1>4, <1>5

LEMMA NotOfBody ==
    ASSUME ParamsInv, pc \notin {"adapt", "failed"}, NEW o \in Ops, NEW s \in o.segments, o.kind # "body"
    PROVE  ParamFor(o, s) \notin Of({"body"}) /\ ParamFor(o, s) \notin Of({"partialBody"})
<1>1. ~IsPart(o, s) /\ o.kind \in {"path", "query", "header"}
  BY KindFacts DEF ParamsInv
<1>2. ParamFor(o, s) \notin Of({"body"})
  BY <1>1, InKind
<1>3. ParamFor(o, s) \notin Of({"partialBody"})
  BY <1>1, InKind
<1> QED BY <1>2, <1>3

LEMMA ContentTypeSent ==
    ASSUME ParamsInv, pc = "body", GivenInv, RequestInv, IsSupported(method),
           NEW o \in Ops, GoesWithBody(o), WithBody \subseteq params
    PROVE  With([q \in WithBody |-> Sent(q)])[o.name] = Promise!Promised(o, given)
<1> DEFINE sent == [q \in WithBody |-> Sent(q)]
<1>1. DOMAIN sent = WithBody /\ \A q \in WithBody : sent[q] = Sent(q)
  OBVIOUS
<1> HIDE DEF sent
<1>2. ~IsHandled(o) /\ ~Skipped(o) /\ method \in Methods /\ o.kind = "header"
  BY DEF IsHandled, Skipped, GoesWithBody, ParamsInv
<1>3. ASSUME NEW s \in o.segments
      PROVE  ParamFor(o, s) \in ContentTypes /\ o.type = "constant"
    BY <1>2, InKind, KindFacts, ContentTypeExact DEF ContentTypes
<1>4. o.segments # {} => \A b \in Ops : b.kind = "body" => \A t \in b.segments : ~IsPart(b, t)
  BY DEF GoesWithBody, IsSupported, Overrides, Ops
<1>5. CASE o.segments = {}
  BY <1>1, <1>2, <1>5, NoneSent DEF sent
<1>6. CASE o.segments # {} /\ \E b \in Ops : b.kind = "body" /\ b.segments # {}
  <2>1. PICK b \in Ops : b.kind = "body" /\ b.segments # {}
    BY <1>6
  <2>2. PICK s \in b.segments : ~IsPart(b, s)
    BY <1>4, <1>6, <2>1
  <2>3. /\ Promise!BodyGiven(given) <=> given[s] # "absent"
        /\ WithBody = IF given[s] # "absent" THEN {ParamFor(b, s)} \cup ContentTypes ELSE {}
    BY <2>1, <2>2, WithWholeBody
  <2>4. CASE given[s] = "absent"
    <3>1. Promise!IsLeftOut(o, given)
      BY <2>3, <2>4 DEF Promise!IsLeftOut, GoesWithBody
    <3>2. \A t \in o.segments : ParamFor(o, t) \notin DOMAIN sent
      BY <1>1, <2>3, <2>4
    <3> QED BY <1>1, <1>2, <3>1, <3>2, NoneSent DEF sent
  <2>5. CASE given[s] # "absent"
    <3>1. ~Promise!IsLeftOut(o, given)
      BY <1>3, <1>6, <2>3, <2>5 DEF Promise!IsLeftOut, GoesWithBody
    <3>2. \A t \in o.segments : ParamFor(o, t) \in DOMAIN sent /\ sent[ParamFor(o, t)] = Sent(ParamFor(o, t))
      BY <1>1, <1>3, <2>3, <2>5
    <3> QED BY <1>1, <1>2, <3>1, <3>2, AllSent DEF sent
  <2> QED BY <2>4, <2>5
<1>7. CASE o.segments # {} /\ \A b \in Ops : b.kind = "body" => b.segments = {}
  <2>1. ~Promise!BodyGiven(given)
    BY <1>7 DEF Promise!BodyGiven, Ops
  <2>2. Promise!IsLeftOut(o, given)
    BY <2>1 DEF Promise!IsLeftOut, GoesWithBody
  <2>3. Of({"body"}) = {} /\ Of({"partialBody"}) = {}
    <3>1. \A r \in params : \E p \in Ops : \E t \in p.segments : r = ParamFor(p, t)
      BY ParamsExact
    <3>2. \A r \in params : r \notin Of({"body"}) /\ r \notin Of({"partialBody"})
      BY <1>7, <3>1, NotOfBody
    <3> QED BY <3>2 DEF Of
  <2>4. WithBody = {}
    BY <2>3 DEF WithBody, Present
  <2> QED BY <1>1, <1>2, <2>2, <2>4, NoneSent DEF sent
<1> QED BY <1>5, <1>6, <1>7

\* What is sent in the end is what was promised.
LEMMA SetBodySends ==
    ASSUME ParamsInv, CallInv, IsSupported(method), SetBody
    PROVE  /\ request' = [n \in {o.name : o \in Ops} |-> Promise!Promised(CHOOSE o \in Ops : o.name = n, given)]
           /\ ~Promise!IsRefused(given)
           /\ CallInv'
<1> DEFINE sent == [q \in WithBody |-> Sent(q)]
<1>1. pc = "body" /\ pc' = "sent"
  BY DEF SetBody
<1>2. request' = With(sent)
  BY DEF SetBody
<1>3. GivenInv /\ RequestInv /\ ~Promise!IsRefused(given) /\ method \in Methods
  BY <1>1 DEF CallInv, UnderWay, ParamsInv
<1>4. WithBody \subseteq params
  BY DEF WithBody, Of, Present, ContentTypes
<1>5. ASSUME NEW o \in Ops PROVE With(sent)[o.name] = Promise!Promised(o, given)
  <2>1. CASE o.kind = "body"
    BY <1>1, <1>3, <1>4, <2>1, BodySent
  <2>2. CASE GoesWithBody(o)
    BY <1>1, <1>3, <1>4, <2>2, ContentTypeSent
  <2>3. CASE o.kind # "body" /\ ~GoesWithBody(o)
    <3>1. DOMAIN sent = WithBody
      OBVIOUS
    <3> HIDE DEF sent
    <3>2. o.kind \in {"path", "query", "header"}
      BY <1>3, <2>3, MethodAssumption DEF WellFormed, Ops, Operations
    <3>3. IsHandled(o)
      BY <1>1, <2>3, <3>2 DEF IsHandled
    <3>4. \A q \in WithBody : \/ q \in Of({"body"}) \/ q \in Of({"partialBody"}) \/ q \in ContentTypes
      BY DEF WithBody, Present
    <3>5. \A s \in o.segments : ParamFor(o, s) \notin WithBody
      <4> TAKE s \in o.segments
      <4>1. ParamFor(o, s) \notin Of({"body"}) /\ ParamFor(o, s) \notin Of({"partialBody"})
        BY <1>1, <2>3, NotOfBody
      <4>2. ParamFor(o, s) \notin ContentTypes
        BY <1>3, <2>3, ContentTypeExact DEF ContentTypes
      <4> QED BY <3>4, <4>1, <4>2
    <3>6. With(sent)[o.name] = request[o.name]
      BY <1>1, <1>3, <1>4, <3>1, <3>5, Untouched
    <3> QED BY <1>3, <3>3, <3>6 DEF RequestInv
  <2> QED BY <2>1, <2>2, <2>3
<1>6. \A o \in Ops : (CHOOSE p \in Ops : p.name = o.name) = o
  BY <1>3, SameOperation
<1>7. DOMAIN With(sent) = {o.name : o \in Ops}
  BY <1>3, WithDomain DEF RequestInv
<1>8. With(sent) = [n \in DOMAIN With(sent) |-> With(sent)[n]]
  BY DEF With
<1> HIDE DEF sent
<1>9. \A n \in {o.name : o \in Ops} : With(sent)[n] = Promise!Promised(CHOOSE o \in Ops : o.name = n, given)
  BY <1>5, <1>6
<1>10. request' = [n \in {o.name : o \in Ops} |-> Promise!Promised(CHOOSE o \in Ops : o.name = n, given)]
  BY <1>2, <1>7, <1>8, <1>9
<1> QED BY <1>1, <1>3, <1>10 DEF CallInv, UnderWay

LEMMA CallKeeps == ASSUME Call PROVE CallInv' /\ GivenInv'
<1>1. /\ pc = "emit" /\ pc' = "check" /\ Ops' = Ops /\ Segments' = Segments
      /\ request' = [n \in {o.name : o \in Ops} |-> [s \in {} |-> "absent"]]
  BY DEF Call, Ops, Segments
<1>2. /\ given' \in [Segments -> {"some", "absent", "empty"}]
      /\ \A s \in Segments : given'[s] \in Gives(s)
  BY DEF Call
<1>3. \A s : "absent" \in Gives(s) => Last(s).optional
  BY DEF Gives
<1>4. GivenInv'
  BY <1>1, <1>2, <1>3 DEF GivenInv
<1>5. \A o \in Ops : ~IsHandled(o)'
  BY <1>1 DEF IsHandled
<1>6. RequestInv'
  BY <1>1, <1>5 DEF RequestInv, Promise!NotSent
<1> QED BY <1>1, <1>4, <1>6 DEF CallInv
LEMMA CallStep ==
    ASSUME ParamsInv, CallInv, IsSupported(method), [Next]_vars
    PROVE  CallInv'
<1>1. CASE AdaptParam \/ CannotAdapt \/ AdaptClientParams
  BY <1>1 DEF AdaptParam, CannotAdapt, Fail, AdaptClientParams, CallInv, UnderWay
<1>2. CASE Call
  BY <1>2, CallKeeps
<1>3. CASE Check
  BY <1>3, CheckKeeps
<1>4. CASE ConstructPath
  BY <1>4, ConstructPathKeeps
<1>5. CASE ConstructQuery
  BY <1>5, ConstructQueryKeeps
<1>6. CASE ApplyHeaders
  BY <1>6, ApplyHeadersKeeps
<1>7. CASE SetBody
  BY <1>7, SetBodySends
<1>8. CASE UNCHANGED vars
  <2>1. pc' = pc /\ method' = method /\ given' = given /\ request' = request
    BY <1>8 DEF vars
  <2>2. Ops' = Ops /\ Segments' = Segments
    BY <2>1 DEF Ops, Segments
  <2>3. GivenInv' = GivenInv /\ Promise!IsRefused(given)' = Promise!IsRefused(given)
    BY <2>1, <2>2 DEF GivenInv, Promise!IsRefused
  <2>4. \A o : Promise!Promised(o, given)' = Promise!Promised(o, given) /\ IsHandled(o)' = IsHandled(o)
    BY <2>1 DEF Promise!Promised, Promise!IsLeftOut, Promise!BodyGiven, Promise!NotSent, IsHandled
  <2>5. RequestInv' = RequestInv
    BY <2>1, <2>2, <2>4 DEF RequestInv, Promise!NotSent
  <2> QED BY <2>1, <2>3, <2>5 DEF CallInv
<1> QED BY <1>1, <1>2, <1>3, <1>4, <1>5, <1>6, <1>7, <1>8 DEF Next, Over

\* A step of the method is one of HttpCall, or changes nothing there.
LEMMA StepRefines ==
    ASSUME ParamsInv, CallInv, IsSupported(method), [Next]_vars
    PROVE  [Promise!Next]_(Promise!vars)
<1>1. CASE AdaptParam \/ CannotAdapt \/ AdaptClientParams
  <2>1. /\ method' = method /\ given' = given /\ Outcome = "none" /\ Outcome' = "none"
        /\ pc # "sent" /\ pc' # "sent"
    BY <1>1 DEF AdaptParam, CannotAdapt, Fail, AdaptClientParams, Outcome
  <2> QED BY <2>1 DEF Promise!vars
<1>2. CASE Call
  <2>1. /\ method' = method /\ Outcome = "none" /\ Outcome' = "given"
        /\ pc # "sent" /\ pc' # "sent" /\ Segments' = Segments
    BY <1>2 DEF Call, Outcome, Segments, Ops
  <2>2. GivenInv'
    BY <1>2, CallKeeps
  <2>3. Promise!Segments = Segments
    BY DEF Promise!Segments, Segments, Ops
  <2>4. Promise!Give
    BY <2>1, <2>2, <2>3 DEF Promise!Give, GivenInv, Promise!Last, Last
  <2> QED BY <2>4 DEF Promise!Next
<1>3. CASE Check
  <2>1. /\ method' = method /\ given' = given /\ Outcome = "given"
        /\ pc # "sent" /\ pc' # "sent" /\ pc' \in {"refused", "path"}
        /\ Outcome' = IF pc' = "refused" THEN "refused" ELSE "given"
    BY <1>3 DEF Check, Outcome
  <2>2. CASE pc' = "refused"
    <3>1. Promise!Refuse
      BY <1>3, <2>1, <2>2, CheckKeeps DEF Promise!Refuse
    <3> QED BY <3>1 DEF Promise!Next
  <2>3. CASE pc' = "path"
    BY <2>1, <2>3 DEF Promise!vars
  <2> QED BY <2>1, <2>2, <2>3
<1>4. CASE ConstructPath \/ ConstructQuery \/ ApplyHeaders
  <2>1. /\ method' = method /\ given' = given /\ Outcome = "given" /\ Outcome' = "given"
        /\ pc # "sent" /\ pc' # "sent"
    BY <1>4 DEF ConstructPath, ConstructQuery, ApplyHeaders, Outcome
  <2> QED BY <2>1 DEF Promise!vars
<1>5. CASE SetBody
  <2>1. /\ method' = method /\ given' = given /\ Outcome = "given" /\ Outcome' = "sent"
        /\ pc # "sent" /\ pc' = "sent"
    BY <1>5 DEF SetBody, Outcome
  <2>2. /\ request' = [n \in {o.name : o \in Ops} |-> Promise!Promised(CHOOSE o \in Ops : o.name = n, given)]
        /\ ~Promise!IsRefused(given)
    BY <1>5, SetBodySends
  <2>3. Promise!Send
    BY <2>1, <2>2 DEF Promise!Send, Ops
  <2> QED BY <2>3 DEF Promise!Next
<1>6. CASE UNCHANGED vars
  <2>1. pc' = pc /\ method' = method /\ given' = given /\ request' = request
    BY <1>6 DEF vars
  <2> QED BY <2>1 DEF Promise!vars, Outcome
<1> QED BY <1>1, <1>2, <1>3, <1>4, <1>5, <1>6 DEF Next, Over

LEMMA InitRefines == ASSUME Init PROVE Promise!Init /\ CallInv
<1>1. pc = "adapt" /\ given = [s \in {} |-> "absent"] /\ method \in Methods
  BY DEF Init
<1>2. Promise!Init
  BY <1>1 DEF Promise!Init, Promise!NotSent, Outcome
<1>3. CallInv
  BY <1>1 DEF CallInv, UnderWay
<1> QED BY <1>2, <1>3

\* MethodCall implements HttpCall for methods that the emitter supports: what is
\* sent is what the caller and the client gave, each parameter where the
\* operation has it and nothing else, or the call is refused for an empty part
\* of the path (getAsyncMethodBody).
THEOREM MethodKeepsItsPromise ==
    ASSUME \A m \in Methods : Emittable(m) /\ LiteralsRequired(m) /\ Overrides(m)
    PROVE  Spec => KeepsPromise
<1>1. ParamsInv => IsSupported(method)
  BY DEF ParamsInv, IsSupported
<1>2. Init => Promise!Init /\ CallInv
  BY InitRefines
<1>3. ParamsInv /\ CallInv /\ [Next]_vars => CallInv' /\ [Promise!Next]_(Promise!vars)
  BY <1>1, CallStep, StepRefines
<1> QED BY <1>2, <1>3, ParamsAreThoseOfSegments, PTL DEF Spec, KeepsPromise, Promise!Spec
=============================================================================
