----------------------------- MODULE MethodCall -----------------------------
(***************************************************************************)
(* A client method, from its description to the request it sends:          *)
(* Adapter.adaptMethod, which makes the parameters of the Rust method from *)
(* those of the operation, and the body that getAsyncMethodBody emits.     *)
(*                                                                         *)
(* tcgc, which is external, describes a method by the parameters of its    *)
(* signature and those of the HTTP operation.  Each of the latter names    *)
(* the properties it comes from, its segments: a parameter of the          *)
(* signature, a property of one (a parameter group), several parameters    *)
(* (a spread body), or a parameter of the client.                          *)
(*                                                                         *)
(* A value is abstracted to whether it is given and whether it is empty.   *)
(* What the emitted code reads is named by where it is found: a field of   *)
(* the client, of the options or of a group, or a parameter.  The Rust     *)
(* types of the expressions, delimiters, encodings and the static part of  *)
(* the path are left out.                                                  *)
(*                                                                         *)
(* A definition Name_Fault is Name with a plausible mistake in the code;   *)
(* no specification uses it: the properties must fail with it.             *)
(***************************************************************************)
EXTENDS Naturals, Sequences, FiniteSets, SequencesExt

CONSTANT Methods

Scalars == {"text", "number", "constant"}

VARIABLES method,   \* the description
          todo,     \* parameters of the signature that are to be adapted
          params,   \* the parameters of the Rust method
          options,  \* the fields of its options
          pc,       \* what the emitter, and then the emitted method, does
          given,    \* what the caller and the client give for every segment
          request   \* what is sent for every parameter of the operation, by segment

vars == <<method, todo, params, options, pc, given, request>>

Ops == method.ops

NoGroup == ""

Segments == UNION {o.segments : o \in Ops}

Init == /\ method \in Methods
        /\ todo = method.params
        /\ params = {} /\ options = {}
        /\ given = [s \in {} |-> "absent"]
        /\ request = [n \in {} |-> "absent"]
        /\ pc = "adapt"

----------------------------------------------------------------------------
(* adaptMethod. *)

\* The id of a request is set by the pipeline.
Skipped(o) == o.kind = "header" /\ o.name = "x-ms-client-request-id"

Strict(p) == {o \in Ops : \E s \in o.segments : Last(s).name = p.name}

\* The operation parameters of p: those that end in it or, if there are none,
\* those that begin with it.
Matches(p) == IF Strict(p) # {} THEN Strict(p)
              ELSE {o \in Ops : \E s \in o.segments : Head(s).name = p.name}

\* The name of a client parameter is that of the field of the client.
ParamName(o) == IF o.client /\ Cardinality(o.segments) = 1
                THEN Last(CHOOSE s \in o.segments : TRUE).name
                ELSE o.name

RustParam(o, name, kind, optional, group) ==
    [name |-> name, kind |-> kind, op |-> o.name, client |-> o.client, optional |-> optional,
     constant |-> o.type = "constant", text |-> o.type = "text", mayBeEmpty |-> o.mayBeEmpty,
     each |-> o.each, group |-> group]

\* adaptMethodParameter: the property of the signature, and not the operation,
\* says whether a parameter is optional.
Adapted_OpOptional(o, p, group) == RustParam(o, ParamName(o), o.kind, o.optional, group)

Adapted(o, p, group) == RustParam(o, ParamName(o), o.kind, p.optional, group)

OptionalContentType_AsWritten(q) == q.kind = "header" /\ q.op = "Content-Type" /\ q.optional

OptionalContentType(q) == q.kind = "header" /\ q.op = "content-type" /\ q.optional

IsSpread(o, p) ==
    o.kind = "body" /\ o.type \notin Scalars /\ (o.type # p.type \/ Cardinality(o.segments) > 1)

\* Only scalars can be put into a path, a query or a header.
Unfit(o, p) == IF IsSpread(o, p) THEN o \notin Strict(p)
               ELSE o.kind # "body" /\ p.type \notin Scalars

\* processAdaptedParam: optional parameters are fields of the options.
Processed(qs) == /\ params' = params \cup qs
                 /\ options' = options \cup {q.name : q \in {r \in qs : r.optional /\ ~OptionalContentType(r)}}

Fail == /\ pc' = "failed"
        /\ UNCHANGED <<method, todo, params, options, given, request>>

\* One operation parameter, or a part of the body.
AdaptOne(p) == \E o \in Matches(p) :
    /\ Matches(p) = {o} /\ ~Skipped(o) /\ ~Unfit(o, p)
    /\ Processed({IF IsSpread(o, p) THEN RustParam(o, p.name, "partialBody", p.optional, NoGroup)
                  ELSE Adapted(o, p, NoGroup)})

PropertyOf(o) == Last(CHOOSE s \in o.segments : Len(s) > 1)

\* A parameter group, which tcgc makes of models only.  Its optional members
\* move to the options.
AdaptGroup(p) ==
    /\ Cardinality(Matches(p)) > 1
    /\ Processed({Adapted(o, PropertyOf(o), IF PropertyOf(o).optional THEN NoGroup ELSE p.name) :
                      o \in {m \in Matches(p) : ~Skipped(m)}})

SkipParam(p) == /\ \E o \in Ops : Matches(p) = {o} /\ Skipped(o)
                /\ UNCHANGED <<params, options>>

AdaptParam == /\ pc = "adapt"
              /\ \E p \in todo : /\ AdaptOne(p) \/ AdaptGroup(p) \/ SkipParam(p)
                                 /\ todo' = todo \ {p}
              /\ UNCHANGED <<method, given, pc, request>>

CannotAdapt == /\ pc = "adapt"
               /\ \E p \in todo : \/ Matches(p) = {}
                                  \/ \E o \in Ops : Matches(p) = {o} /\ ~Skipped(o) /\ Unfit(o, p)
               /\ Fail

\* Client parameters are not in the signature.  They have no entry in the options.
AdaptClientParams == /\ pc = "adapt" /\ todo = {}
                     /\ params' = params \cup {Adapted(o, o, NoGroup) : o \in {c \in Ops : c.client}}
                     /\ pc' = "emit"
                     /\ UNCHANGED <<method, todo, options, given, request>>

----------------------------------------------------------------------------
(* The descriptions. *)

Properties == [name : STRING, optional : BOOLEAN, type : STRING]

Operations == [name : STRING, kind : {"path", "query", "header", "body"}, type : STRING,
               segments : SUBSET Seq(Properties),
               optional : BOOLEAN, client : BOOLEAN, mayBeEmpty : BOOLEAN, each : BOOLEAN]

\* A part of a spread body.
IsPart(o, s) == Len(s) = 1 /\ IsSpread(o, Last(s))

\* A parameter of the operation comes from one of the signature, from a property
\* of a group or from one of the client; only a body may have several parts.
IsSegment(m, o, s) ==
    /\ Len(s) \in 1..2
    /\ \A t \in o.segments : t # s => IsPart(o, s)
    /\ IsPart(o, s) => ~o.optional
    /\ o.client  => /\ Len(s) = 1 /\ o.kind # "body" /\ ~Skipped(o)
                    /\ o.optional = Last(s).optional
                    /\ \A p \in m.params : p.name # Last(s).name
    /\ ~o.client => Head(s) \in m.params /\ (IsPart(o, s) \/ Last(s).name = o.name)
    /\ Len(s) = 2 => /\ Head(s).type \notin Scalars
                     /\ o.kind = "body" => IsSpread(o, Head(s))
                     /\ \A p \in m.params : p.name # Last(s).name

\* No two segments end in the same name, and a group is nothing but a group.
AreDistinct(o1, s1, o2, s2) ==
    /\ Last(s1).name = Last(s2).name => o1 = o2 /\ s1 = s2
    /\ Len(s1) = 2 => Last(s2) # Head(s1)

WellFormed(m) ==
    /\ IsFiniteSet(m.ops) /\ m.ops \subseteq Operations /\ m.params \subseteq Properties
    /\ \A p, q \in m.params : p.name # NoGroup /\ (p.name = q.name => p = q)
    /\ \A o, p \in m.ops : o.name = p.name \/ (o.kind = "body" /\ p.kind = "body") => o = p
    /\ \A o \in m.ops : o.client => o.segments # {}
    /\ \A o \in m.ops : \A s \in o.segments : IsSegment(m, o, s)
    /\ \A o, p \in m.ops : \A s \in o.segments : \A t \in p.segments : AreDistinct(o, s, p, t)

ASSUME MethodAssumption == \A m \in Methods : WellFormed(m)

----------------------------------------------------------------------------
(* What the emitted code reads, and what it may read. *)

Ref(from, name) == [from |-> from, name |-> name]

\* getMethodParamsCountAndSig.
Signature == {Ref("param", q.name) : q \in {r \in params : /\ ~r.client /\ ~r.optional
                                                          /\ r.group = NoGroup /\ ~r.constant}}
               \cup {Ref("param", q.group) : q \in {r \in params : r.group # NoGroup}}

\* emitMethodOptions, and the fields of the client.
Scope == Signature \cup {Ref("options", n) : n \in options}
                   \cup {Ref("self", q.name) : q \in {r \in params : r.client}}

\* qualifiedParamName.
Qualified(q) == Ref("param", IF q.group # NoGroup THEN q.group ELSE q.name)

Value_Unqualified(q) == Ref(IF q.client THEN "self" ELSE "param", q.name)

\* getHeaderPathQueryParamValue; collections and maps of which each element is
\* emitted by itself are read without it.
Value(q) == IF q.client /\ ~q.each THEN Ref("self", q.name) ELSE Qualified(q)

\* A path that consists of one parameter is joined to the URL directly.
IsDirect == method.route = "direct"

PathRef(q) == IF q.optional /\ ~IsDirect THEN Ref("options", q.name) ELSE Value(q)

\* getParamValueHelper.
Guarded(q, value) == IF q.optional THEN Ref(IF q.client THEN "self" ELSE "options", q.name) ELSE value

Reads(q) ==
    IF q.constant THEN {}
    ELSE CASE q.kind = "path"        -> {PathRef(q)}
           [] q.kind = "partialBody" -> {Ref(IF q.optional THEN "options" ELSE "param", q.name)}
           [] q.kind = "body"        -> {Guarded(q, Ref("param", q.name))}
           [] OTHER                  -> {Guarded(q, Value(q))}

Compiles == \A q \in params : Reads(q) \subseteq Scope

----------------------------------------------------------------------------
(* The emitted method, once the crate compiles. *)

Gives(s) == {"some"} \cup (IF Last(s).optional THEN {"absent"} ELSE {})
                     \cup (IF Last(s).type = "text" THEN {"empty"} ELSE {})

Call == /\ pc = "emit" /\ Compiles
        /\ given' \in {g \in [Segments -> {"some", "absent", "empty"}] : \A s \in Segments : g[s] \in Gives(s)}
        /\ request' = [n \in {o.name : o \in Ops} |-> [s \in {} |-> "absent"]]
        /\ pc' = "check"
        /\ UNCHANGED <<method, todo, params, options>>

SegmentsOf(q) == LET o == CHOOSE o \in Ops : o.name = q.op
                 IN  IF q.kind = "partialBody" THEN {s \in o.segments : Last(s).name = q.name}
                     ELSE o.segments

\* Whether the value of q is at hand, and what it is.
Has(q) == \A s \in SegmentsOf(q) : given[s] # "absent"

Sent(q) == [s \in SegmentsOf(q) |-> IF q.constant THEN "some" ELSE given[s]]

Of(kinds) == {q \in params : q.kind \in kinds}

\* The request with what sent has for some parameters; the parts of a spread
\* body are merged.
With(sent) ==
    [n \in DOMAIN request |->
        LET qs == {q \in DOMAIN sent : q.op = n}
        IN  [s \in DOMAIN request[n] \cup UNION {SegmentsOf(q) : q \in qs} |->
                IF \E q \in qs : s \in SegmentsOf(q)
                THEN sent[CHOOSE q \in qs : s \in SegmentsOf(q)][s]
                ELSE request[n][s]]]

NeedsCheck_EvenIfAllowed(q) == ~q.optional /\ ~q.client /\ q.text

\* checkEmptyRequiredPathParams and emitEmptyPathParamCheck.
NeedsCheck(q) == ~q.optional /\ ~q.client /\ ~q.mayBeEmpty /\ q.text

Check == /\ pc = "check"
         /\ pc' = IF \E q \in Of({"path"}) : NeedsCheck(q) /\ \E s \in SegmentsOf(q) : given[s] = "empty"
                  THEN "refused" ELSE "path"
         /\ UNCHANGED <<method, todo, params, options, given, request>>

\* constructUrl: the placeholder of an optional parameter is replaced by "".
Replacement(q) == IF Has(q) THEN Sent(q) ELSE [s \in SegmentsOf(q) |-> "empty"]

ConstructPath == /\ pc = "path" /\ pc' = "query"
                 /\ request' = With([q \in Of({"path"}) |-> Replacement(q)])
                 /\ UNCHANGED <<method, todo, params, options, given>>

Present(qs) == {q \in qs : q.constant \/ ~q.optional \/ Has(q)}

ConstructQuery == /\ pc = "query" /\ pc' = "header"
                  /\ request' = With([q \in Present(Of({"query"})) |-> Sent(q)])
                  /\ UNCHANGED <<method, todo, params, options, given>>

\* applyHeaderParams leaves the content type of an optional body to that body.
ApplyHeaders == /\ pc = "header" /\ pc' = "body"
                /\ LET headers == {q \in Of({"header"}) : ~OptionalContentType(q)}
                   IN  request' = With([q \in Present(headers) |-> Sent(q)])
                /\ UNCHANGED <<method, todo, params, options, given>>

\* constructRequest.
ContentTypes == {q \in Of({"header"}) : OptionalContentType(q)}

WithBody == LET body == Present(Of({"body"}))
            IN  IF body # {} THEN body \cup ContentTypes
                ELSE IF Of({"body"}) # {} THEN {} ELSE Of({"partialBody"})

SetBody == /\ pc = "body" /\ pc' = "sent"
           /\ request' = With([q \in WithBody |-> Sent(q)])
           /\ UNCHANGED <<method, todo, params, options, given>>

Over == /\ pc \in {"failed", "refused", "sent"} \/ (pc = "emit" /\ ~Compiles)
        /\ UNCHANGED vars

Next == \/ AdaptParam \/ CannotAdapt \/ AdaptClientParams
        \/ Call \/ Check \/ ConstructPath \/ ConstructQuery \/ ApplyHeaders \/ SetBody
        \/ Over

Spec == Init /\ [][Next]_vars

----------------------------------------------------------------------------
(* The methods for which the emitter keeps its promises. *)

\* What the emitter cannot read: an optional part of the path that is on the
\* client or is all of the path, the required body of a group, a required client
\* parameter that is written element by element, and an optional content type
\* that is no literal.
Emittable(m) == \A o \in m.ops : \A s \in o.segments :
    /\ o.kind = "path" /\ Last(s).optional => ~o.client /\ m.route # "direct"
    /\ o.kind = "body" /\ Len(s) = 2 => Last(s).optional
    /\ o.client /\ o.each => o.optional
    /\ o.kind = "header" /\ o.name = "content-type" /\ Last(s).optional => o.type = "constant"

\* Literals are required and in no group; that of the content type may be
\* optional.
LiteralsRequired(m) == \A o \in m.ops : \A s \in o.segments :
    o.type = "constant" /\ ~o.client =>
       /\ Len(s) = 1
       /\ Last(s).optional => o.kind = "header" /\ o.name = "content-type"

\* An override makes nothing optional that is required; an optional content type
\* stays so, and belongs to a body that is not spread.
Overrides(m) == \A o \in m.ops : \A s \in o.segments :
    /\ Last(s).optional => o.optional \/ IsPart(o, s)
    /\ o.kind = "header" /\ o.name = "content-type" /\ o.optional =>
          /\ Last(s).optional
          /\ \A b \in m.ops : b.kind = "body" => \A t \in b.segments : ~IsPart(b, t)

----------------------------------------------------------------------------
(* Properties. *)

\* Whatever the body of a method reads is a parameter of the method, a field of
\* its options or a field of the client: the emitted crate compiles.
EmittedCompiles == pc = "emit" => Compiles

\* A caller can leave out exactly what the signature, perhaps that of an
\* override, says is optional, and whatever he sets changes the request: the body
\* reads every parameter of the signature and every field of the options.
OptionsMatter == pc = "emit" =>
    /\ Signature \cup {Ref("options", n) : n \in options} \subseteq UNION {Reads(q) : q \in params}
    /\ \A q \in params : \A s \in SegmentsOf(q) :
          ~q.client /\ ~q.constant => (Last(s).optional <=> q.name \in options)

\* The request has what the caller and the client gave, each parameter where
\* the operation has it and nothing else, or the call is refused for an empty
\* part of the path: MethodCall implements HttpCall.
Outcome == CASE pc \in {"adapt", "failed", "emit"} -> "none"
             [] pc \in {"refused", "sent"}         -> pc
             [] OTHER                              -> "given"

Promise == INSTANCE HttpCall WITH outcome <- Outcome,
                                  request <- IF pc = "sent" THEN request ELSE [n \in {} |-> [s \in {} |-> "absent"]]

KeepsPromise == Promise!Spec
=============================================================================
