----------------------------- MODULE ClientTree -----------------------------
(***************************************************************************)
(* The clients of a crate and how a caller gets hold of one:               *)
(* Adapter.recursiveAdaptClient, which adapts a client, its sub-clients    *)
(* and the client parameters of its methods, and the constructors and      *)
(* accessors that emitClients writes.                                      *)
(*                                                                         *)
(* A name is the sequence of its words, without the suffix Client.  The    *)
(* type of a field or a parameter is abstracted to whether it is an        *)
(* Option.  The other parameters of methods are left out (see MethodCall). *)
(*                                                                         *)
(* tcgc, which is external, describes a client by the parameters it is     *)
(* initialised with, who initialises it, its children, whether it has      *)
(* methods, and the client parameters that these read.  A credential       *)
(* parameter has one authentication scheme or a union of them.             *)
(*                                                                         *)
(* A definition Name_Fault is Name with a plausible mistake in the code;   *)
(* no specification uses it: the properties must fail with it.             *)
(***************************************************************************)
EXTENDS Naturals, Sequences, FiniteSets, SequencesExt

CONSTANT Packages

----------------------------------------------------------------------------
(* The descriptions. *)

Words == Seq(STRING)

Parameters == [name : Words, field : Words, kind : {"endpoint", "credential", "method"},
               apiVersion : BOOLEAN, optional : BOOLEAN, default : BOOLEAN,
               template : Seq([name : Words, optional : BOOLEAN, default : BOOLEAN]),
               schemes : Seq(STRING)]

Operations == [name : Words, kind : STRING, field : Words, optional : BOOLEAN]

IsClient(c, ids) == c \in [name : STRING, clientName : BOOLEAN, methods : BOOLEAN,
                           by : {"code", "individually", "both", "parent"},
                           children : Seq(ids), params : Seq(Parameters), reads : Seq(Operations)]

ASSUME ClientTreeAssumption ==
    \A p \in Packages : /\ p.roots \in Seq(DOMAIN p.clients)
                        /\ \A c \in DOMAIN p.clients : IsClient(p.clients[c], DOMAIN p.clients)

VARIABLES package,  \* the descriptions of the clients, and the roots
          stack,    \* calls of recursiveAdaptClient, the innermost first
          next,     \* the children a client has adapted
          rust,     \* the adapted clients
          cache,    \* clientMethodParams
          failed    \* whether the adapter has given up

vars == <<package, stack, next, rust, cache, failed>>

Clients == DOMAIN package.clients

Tcgc(c) == package.clients[c]

Empty == [n \in {} |-> 0]

Init == /\ package \in Packages
        /\ stack = <<>> /\ next = [c \in Clients |-> 0]
        /\ rust = Empty /\ cache = Empty
        /\ failed = FALSE

\* What is made of each element, one after the other.
Collected(s, F(_)) == FlattenSeq([i \in DOMAIN s |-> F(s[i])])

Filtered(s, Test(_)) == Collected(s, LAMBDA x : IF Test(x) THEN <<x>> ELSE <<>>)

Names(fields) == {fields[i].name : i \in DOMAIN fields}

FieldOf(c, name) == LET fields == rust[c].fields
                    IN  fields[CHOOSE i \in DOMAIN fields : fields[i].name = name]

----------------------------------------------------------------------------
(* Parameters. *)

Field(name, option) == [name |-> name, option |-> option]

Pipeline == Field(<<"pipeline">>, FALSE)

\* A parameter of the constructors.
Param(name, kind, optional) == [name |-> name, kind |-> kind, optional |-> optional]

\* A client as its own parameters are added to it.
WithField(r, field)  == [r EXCEPT !.fields = Append(@, field)]
WithParam(r, param)  == [r EXCEPT !.params = Append(@, param)]

\* Without a default value the caller need not set it at all.
IsOption(p) == p.optional /\ ~p.default

\* adaptClientParameter: optional parameters are fields of the options.
OptionFor(p, name) == IF p.optional \/ p.default THEN <<Field(name, IsOption(p))>> ELSE <<>>

ClientParam(p, name, kind) == Param(name, kind, p.optional \/ p.default)

\* The same for several, each under its name.
AdaptClientParameters(r, ps, Name(_), kind) ==
    [r EXCEPT !.options = @ \o Collected(ps, LAMBDA p : OptionFor(p, Name(p))),
              !.params  = @ \o [i \in DOMAIN ps |-> ClientParam(ps[i], Name(ps[i]), kind)]]

OwnName(p) == p.name

Constructor(name, params) == [name |-> name, params |-> params]

Credential == Param(<<"credential">>, "credential", FALSE)

\* processCredential: all flows of OAuth2 share one constructor.
ProcessCredential(r, scheme) ==
    [r EXCEPT !.auth  = @ \cup {scheme},
              !.ctors = IF scheme = "oauth2" /\ scheme \notin r.auth
                        THEN Append(@, Constructor("new", <<Credential>>)) ELSE @]

WithSchemes(r, schemes) == FoldLeft(ProcessCredential, r, schemes)

Merged(p) == p.apiVersion /\ IsOption(p)

\* The endpoint, the parameters of its template, and the other parameters.
\* The api-version that is merged from the children is useless and left out.
OwnParam(r, p) ==
    CASE p.kind = "endpoint" ->
           AdaptClientParameters(
               WithField(WithParam([r EXCEPT !.endpoint = p.field], Param(p.field, "endpoint", FALSE)),
                         Field(p.field, FALSE)),
               p.template, OwnName, "template")
      [] p.kind = "method" /\ ~Merged(p) ->
           WithField(AdaptClientParameters(r, <<p>>, OwnName, "method"), Field(p.name, IsOption(p)))
      [] p.kind = "credential" -> WithSchemes(r, p.schemes)
      [] OTHER -> r

WithOwnParams(r, params) == FoldLeft(OwnParam, r, params)

\* sortClientParameters.
Sorted(params) == Filtered(params, LAMBDA p : p.kind = "endpoint")
                    \o Filtered(params, LAMBDA p : p.kind = "credential")
                    \o Filtered(params, LAMBDA p : p.kind \notin {"endpoint", "credential"})

WithNoCredential_Fallback(auth) == "oauth2" \notin auth

\* Without a credential parameter the service needs no authentication.
WithNoCredential(auth) == auth = {} \/ "noAuth" \in auth

\* The constructors get the parameters of the client.
Constructed(r) ==
    LET ctors == r.ctors \o (IF WithNoCredential(r.auth) THEN <<Constructor("with_no_credential", <<>>)>>
                             ELSE <<>>)
    IN  [r EXCEPT !.ctors = [i \in DOMAIN ctors |->
                                [ctors[i] EXCEPT !.params = Sorted(@ \o r.params)]]]

----------------------------------------------------------------------------
(* recursiveAdaptClient, up to its loop over the children. *)

NameOf_Verbatim(c, above) == <<Tcgc(c).name>>

\* Interfaces of the same name in several clients have different names in Rust.
NameOf(c, above) == IF above = <<>> \/ Tcgc(c).clientName THEN <<Tcgc(c).name>>
                    ELSE rust[Head(above)].name \o <<Tcgc(c).name>>

\* deduplicateClientFieldName.
Deduplicated(clientName, name) == clientName \o name

IsConstructable(c) == Tcgc(c).by \in {"code", "individually", "both"}

New(c, above) == [name |-> NameOf(c, above), fields |-> <<Pipeline>>, params |-> <<>>, options |-> <<>>,
                  auth |-> {}, ctors |-> <<>>, endpoint |-> <<>>, accessors |-> {}, reads |-> <<>>]

Push(c, above) == stack' = <<c>> \o above

\* An optional api-version without a value is accepted only as one that is merged.
Rejected(c, above) ==
    \E i \in DOMAIN Tcgc(c).params :
       Merged(Tcgc(c).params[i]) /\ ~(above = <<>> /\ Tcgc(c).children # <<>> /\ ~Tcgc(c).methods)

AdaptConstructable(c, above) ==
    LET own == WithOwnParams(New(c, above), Tcgc(c).params)
    IN  /\ IsConstructable(c) /\ ~Rejected(c, above)
        /\ rust' = [d \in DOMAIN rust \cup {c} |-> IF d = c THEN Constructed(own) ELSE rust[d]]

\* The instantiable client that is nearest.
Nearest(above) == LET i == CHOOSE i \in DOMAIN above :
                              /\ IsConstructable(above[i])
                              /\ \A j \in 1..(i - 1) : ~IsConstructable(above[j])
                  IN  above[i]

SharedWith(c, p) == p.name \in Names(rust[c].fields)

\* An api-version that no parent has: one of several services.
OwnVersion(c, parent, p) == p.kind = "method" /\ p.apiVersion /\ ~SharedWith(parent, p)

SubField(parent, p) ==
    CASE SharedWith(parent, p)                       -> <<FieldOf(parent, p.name)>>
      [] p.kind = "method" /\ ~SharedWith(parent, p) -> <<Field(p.name, FALSE)>>
      [] OTHER                                       -> <<>>

WithVersionFields(r, clientName, versions) ==
    [r EXCEPT !.fields = @ \o [i \in DOMAIN versions |->
                                  Field(Deduplicated(clientName, versions[i].name), IsOption(versions[i]))]]

WithVersions_FieldOnly(r, clientName, versions) == WithVersionFields(r, clientName, versions)

\* The instantiable client, each constructor of it, gets the api-version of a
\* child, by another name.
WithVersions(r, clientName, versions) ==
    LET Name(p) == Deduplicated(clientName, p.name)
        adapted == AdaptClientParameters([r EXCEPT !.params = <<>>], versions, Name, "method")
        ctors   == [i \in DOMAIN r.ctors |-> [r.ctors[i] EXCEPT !.params = @ \o adapted.params]]
    IN  WithVersionFields([r EXCEPT !.options = adapted.options, !.ctors = ctors], clientName, versions)

\* A sub-client has some of the fields of its parent.
AdaptSubClient(c, above) ==
    LET parent   == Head(above)
        versions == Filtered(Tcgc(c).params, LAMBDA p : OwnVersion(c, parent, p))
        fields   == <<Pipeline>> \o Collected(Tcgc(c).params, LAMBDA p : SubField(parent, p))
        sub      == [New(c, above) EXCEPT !.fields = fields, !.endpoint = rust[parent].endpoint]
        nearest  == Nearest(above)
    IN  /\ ~IsConstructable(c) /\ above # <<>>
        /\ rust' = [d \in DOMAIN rust \cup {c} |->
                       IF d = c THEN sub
                       ELSE IF d = nearest THEN WithVersions(rust[d], sub.name, versions)
                       ELSE rust[d]]

Enter(c, above) == /\ AdaptConstructable(c, above) \/ AdaptSubClient(c, above)
                   /\ Push(c, above)
                   /\ UNCHANGED <<package, next, cache, failed>>

Reject(c, above) == /\ (IsConstructable(c) /\ Rejected(c, above)) \/ (~IsConstructable(c) /\ above = <<>>)
                    /\ failed' = TRUE
                    /\ UNCHANGED <<package, stack, next, rust, cache>>

\* The call has returned from the children before the next one is entered.
EnterRoot ==
    /\ ~failed /\ stack = <<>>
    /\ \E i \in DOMAIN package.roots :
          LET c == package.roots[i]
          IN  /\ c \notin DOMAIN rust /\ \A j \in 1..(i - 1) : package.roots[j] \in DOMAIN rust
              /\ Enter(c, <<>>) \/ Reject(c, <<>>)

EnterChild ==
    /\ ~failed /\ stack # <<>>
    /\ LET top == Head(stack)
           c   == Tcgc(top).children[next[top] + 1]
       IN  /\ next[top] < Len(Tcgc(top).children)
           /\ Enter(c, stack) \/ Reject(c, stack)

----------------------------------------------------------------------------
(* The rest of recursiveAdaptClient: the methods, and the accessor that    *)
(* the caller adds for the client it gets.                                 *)

Key_NameOnly(op) == op.name

Key(op) == <<op.name, op.kind>>

\* adaptMethodParameter for a parameter of the client.
AdaptRead(acc, op) ==
    LET new == IF Key(op) \in DOMAIN acc.cache THEN acc.cache
               ELSE [k \in DOMAIN acc.cache \cup {Key(op)} |->
                        IF k = Key(op) THEN [kind |-> op.kind, field |-> op.field, optional |-> op.optional]
                        ELSE acc.cache[k]]
    IN  [cache |-> new, reads |-> Append(acc.reads, new[Key(op)])]

AdaptReads(ops) == FoldLeft(AdaptRead, [cache |-> cache, reads |-> <<>>], ops)

AccessorParams_NotFields(parent, c) == {Tcgc(c).params[i].name : i \in DOMAIN Tcgc(c).params} \ Names(rust[parent].fields)

\* adaptClientAccessor: what the parent is not initialised with.
AccessorParams(parent, c) ==
    {Tcgc(c).params[i].name : i \in DOMAIN Tcgc(c).params}
      \ {Tcgc(parent).params[i].name : i \in DOMAIN Tcgc(parent).params}

WithAccessor(adapted, above, c) ==
    IF above = <<>> THEN adapted
    ELSE [adapted EXCEPT ![Head(above)].accessors =
             @ \cup {[child |-> c, params |-> AccessorParams(Head(above), c)]}]

Leave ==
    /\ ~failed /\ stack # <<>>
    /\ LET c    == Head(stack)
           read == AdaptReads(Tcgc(c).reads)
       IN  /\ next[c] = Len(Tcgc(c).children)
           /\ cache' = read.cache
           /\ rust' = WithAccessor([rust EXCEPT ![c].reads = read.reads], Tail(stack), c)
           /\ stack' = Tail(stack)
           /\ next' = IF stack' = <<>> THEN next ELSE [next EXCEPT ![Head(stack')] = @ + 1]
    /\ UNCHANGED <<package, failed>>

\* All clients are adapted, and emitted.
Done == ~failed /\ stack = <<>> /\ ToSet(package.roots) \subseteq DOMAIN rust

Finished == (Done \/ failed) /\ UNCHANGED vars

Next == EnterRoot \/ EnterChild \/ Leave \/ Finished

Spec == Init /\ [][Next]_vars

----------------------------------------------------------------------------
(* What emitClients writes for the clients once they are adapted. *)

\* getClientAccessorMethodBody: the fields of the new client that are
\* initialised, from the parameters and from the fields of the parent.
FromParent(parent, child) ==
    Collected(rust[parent].fields, LAMBDA f :
        IF f.name \in Names(rust[child].fields) THEN <<f>>
        ELSE LET own == Filtered(rust[child].fields,
                                 LAMBDA e : Deduplicated(rust[child].name, e.name) = f.name)
             IN  IF own = <<>> THEN <<>> ELSE <<Field(own[1].name, f.option)>>)

AccessorBody(parent, a) == FromParent(parent, a.child) \o SetToSeq({Field(p, FALSE) : p \in a.params})

\* The body of a constructor: parameters by their own names, and options.
OptionOf(c, name) == Filtered(rust[c].options, LAMBDA f : f.name = name)

ConstructorBody(c, params) ==
    <<Pipeline>> \o Collected(params, LAMBDA p :
        IF p.kind \in {"template", "credential"} THEN <<>>
        ELSE IF p.optional THEN OptionOf(c, p.name) ELSE <<Field(p.name, FALSE)>>)

\* getAuthPolicy: the requests of the client are authenticated.
HasAuthPolicy(params) == \E i \in DOMAIN params : params[i].kind = "credential"

\* Customized clients have options but no constructors.
HasConstructors(c) == Tcgc(c).by \in {"individually", "both"}

\* Rust wants each field of a struct once, with its type.
Initialises(inits, c) == /\ ToSet(inits) = ToSet(rust[c].fields)
                         /\ Len(inits) = Cardinality(Names(rust[c].fields))
                         /\ Len(inits) = Len(rust[c].fields)

----------------------------------------------------------------------------
(* Properties. *)

\* An accessor initialises every field of the client that it returns, once and
\* with a value of its type, whichever of the two has the parameter: also when
\* the parent has it by a different name.
AccessorsInitialise ==
    Done => \A c \in DOMAIN rust : \A a \in rust[c].accessors : Initialises(AccessorBody(c, a), a.child)

\* Every constructor initialises every field of its client, also those that a
\* sub-client adds later, and its first parameter is the endpoint.
ConstructorsInitialise ==
    Done => \A c \in DOMAIN rust : HasConstructors(c) =>
                \A params \in {ctor.params : ctor \in ToSet(rust[c].ctors)} :
                    /\ Initialises(ConstructorBody(c, params), c)
                    /\ params # <<>> /\ Head(params).kind = "endpoint"

Schemes(c) == UNION {ToSet(p.schemes) : p \in {q \in ToSet(Tcgc(c).params) : q.kind = "credential"}}

\* A client can be created without a credential only if the service says that it
\* needs none, or accepts none; with one whenever the service accepts a token,
\* which is then used.  No scheme that is not supported opens another way in, and
\* no two constructors have the same name.
AuthenticationAsDescribed ==
    \A c \in DOMAIN rust : HasConstructors(c) =>
        LET ctors == rust[c].ctors
        IN  /\ (\E i \in DOMAIN ctors : HasAuthPolicy(ctors[i].params)) <=> "oauth2" \in Schemes(c)
            /\ (\E i \in DOMAIN ctors : ~HasAuthPolicy(ctors[i].params))
                  <=> Schemes(c) = {} \/ "noAuth" \in Schemes(c)
            /\ \A i, j \in DOMAIN ctors : ctors[i].name = ctors[j].name => i = j

\* Every client of a package has a name of its own, also when interfaces of
\* several clients have the same name.
NamesDistinct == \A c, d \in DOMAIN rust : rust[c].name = rust[d].name => c = d

\* What the methods of a client read from it, endpoint included, is a field of
\* it, an Option exactly if the parameter is optional, and is sent where the
\* operation has it.
ClientParamsResolve ==
    \A c \in DOMAIN rust :
        /\ Field(rust[c].endpoint, FALSE) \in ToSet(rust[c].fields)
        /\ \A i \in DOMAIN rust[c].reads :
              LET op == rust[c].reads[i]
              IN  /\ Field(op.field, op.optional) \in ToSet(rust[c].fields)
                  /\ op.kind = Tcgc(c).reads[i].kind /\ op.field = Tcgc(c).reads[i].field

----------------------------------------------------------------------------
(* Packages for which the theorems hold: what tcgc has checked, or TypeSpec *)
(* authors ensure by @clientName.                                          *)

ChildrenOf(p, c) == ToSet(p.clients[c].children)

ParamsIn(p, c) == ToSet(p.clients[c].params)

Absolute(p, c) == c \in ToSet(p.roots) \/ p.clients[c].clientName

\* The clients are a forest.  A client is called by a name of its own only if no
\* other one is, and by one within its parent otherwise.
WellNamed(p) ==
    /\ \A a \in DOMAIN p.clients : \A c \in ChildrenOf(p, a) :
          /\ c # a /\ c \notin ToSet(p.roots)
          /\ \A b \in DOMAIN p.clients : c \in ChildrenOf(p, b) => a = b
          /\ \A d \in ChildrenOf(p, a) :
                p.clients[c].name = p.clients[d].name /\ ~Absolute(p, c) /\ ~Absolute(p, d) => c = d
    /\ \A c, d \in DOMAIN p.clients :
          Absolute(p, c) /\ Absolute(p, d) /\ p.clients[c].name = p.clients[d].name => c = d

EndpointsIn(p, c) == {q \in ParamsIn(p, c) : q.kind = "endpoint"}

MethodParamsIn(p, c) == {q \in ParamsIn(p, c) : q.kind = "method" /\ ~Merged(q)}

FieldName(q) == IF q.kind = "endpoint" THEN q.field ELSE q.name

VersionNames(p) == {q.name : q \in {r \in UNION {ParamsIn(p, c) : c \in DOMAIN p.clients} : r.apiVersion}}

\* No parameter is called like the pipeline, or like the api-version of a client
\* that the name of the client precedes.
NamesFit(p) ==
    /\ <<>> \notin VersionNames(p)
    /\ \A c \in DOMAIN p.clients : \A q \in ParamsIn(p, c) : \A n \in {q.name, FieldName(q)} :
          /\ n # <<"pipeline">>
          /\ \A i \in 2..Len(n) : SubSeq(n, i, Len(n)) \notin VersionNames(p)

\* A client has an endpoint, and parameters of one name agree.
OwnParamsFit(p) ==
    \A c \in DOMAIN p.clients :
        /\ EndpointsIn(p, c) # {}
        /\ \A e \in EndpointsIn(p, c), q \in MethodParamsIn(p, c) : e.field # q.name
        /\ \A q, r \in MethodParamsIn(p, c) : q.name = r.name => IsOption(q) = IsOption(r)

\* A sub-client has its parameters as its parent has them, and only required ones
\* of its own.
SubParamsFit(p) ==
    \A a \in DOMAIN p.clients : \A c \in ChildrenOf(p, a) : p.clients[c].by = "parent" =>
        /\ \A f \in ParamsIn(p, c) : ~Merged(f)
        /\ \A f \in EndpointsIn(p, c), e \in EndpointsIn(p, a) : f.name = e.field /\ f.field = e.field
        /\ \A f \in ParamsIn(p, c), e \in EndpointsIn(p, a) : f.name = e.field => f.kind = "endpoint"
        /\ \A f \in ParamsIn(p, c), q \in MethodParamsIn(p, a) :
              f.name = q.name => f.kind = "method" /\ IsOption(f) = IsOption(q)
        /\ \A f \in MethodParamsIn(p, c) :
              (\A q \in MethodParamsIn(p, a) : f.name # q.name) => IsOption(f) = FALSE

\* What methods read, their client has, and operations that have a parameter by
\* the same name at the same place read the same.
ReadsFit(p) ==
    \A c \in DOMAIN p.clients : \A op \in ToSet(p.clients[c].reads) :
        /\ \E q \in MethodParamsIn(p, c) : q.name = op.field /\ IsOption(q) = op.optional
        /\ \A d \in DOMAIN p.clients : \A other \in ToSet(p.clients[d].reads) :
              Key(op) = Key(other) => op.field = other.field /\ op.optional = other.optional

\* What a parameter is called among those of the constructors.
NamesOf(q) == IF q.kind = "endpoint" THEN {q.field} \cup {t.name : t \in ToSet(q.template)} ELSE {q.name}

\* A client has each child once, and each of its parameters, those in the template
\* of the endpoint included, under a name of its own.
OnceEach(p) ==
    \A c \in DOMAIN p.clients :
        LET params == p.clients[c].params
        IN  /\ IsInjective(p.clients[c].children)
            /\ \A i, j \in DOMAIN params : i # j => NamesOf(params[i]) \cap NamesOf(params[j]) = {}
            /\ \A e \in EndpointsIn(p, c) :
                  /\ \A i, j \in DOMAIN e.template : e.template[i].name = e.template[j].name => i = j
                  /\ \A t \in ToSet(e.template) :
                        /\ t.name # e.field
                        /\ \A i \in 2..Len(t.name) : SubSeq(t.name, i, Len(t.name)) \notin VersionNames(p)

\* What an accessor has to know of the new client is in the parent or asked of the
\* caller.  A version that the parent only merges, sub-clients of a root have alone;
\* no parameter is called like one of a child with the name of the child before it.
AccessorsFit(p) ==
    \A a \in DOMAIN p.clients : \A c \in ChildrenOf(p, a) :
        /\ \A f \in ParamsIn(p, c) : FieldName(f) # <<>>
        /\ \A e \in EndpointsIn(p, a), f \in EndpointsIn(p, c) : {e.field, f.name, f.field} = {e.name}
        /\ \A f \in ParamsIn(p, c) :
              \/ \E g \in ParamsIn(p, a) : g.name = f.name
              \/ f.kind = "method" /\ ~IsOption(f) /\ (f.apiVersion => p.clients[c].by # "parent")
        /\ \A f \in ParamsIn(p, c), g \in ParamsIn(p, a) : f.name = g.name =>
              /\ f.kind = g.kind
              /\ ~Merged(g) /\ f.kind = "method" => IsOption(f) = IsOption(g)
              /\ Merged(g) => Merged(f) \/ (f.apiVersion /\ a \in ToSet(p.roots) /\ p.clients[c].by = "parent")
        /\ \A n \in {FieldName(g) : g \in ParamsIn(p, a)} \cup VersionNames(p) : \A i \in 2..Len(n) :
              n[i - 1] = p.clients[c].name =>
                  SubSeq(n, i, Len(n)) \notin {FieldName(f) : f \in ParamsIn(p, c)} \cup {<<"pipeline">>}

Coherent(p) == NamesFit(p) /\ OwnParamsFit(p) /\ SubParamsFit(p) /\ ReadsFit(p)
=============================================================================
