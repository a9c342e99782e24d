---------------------------- MODULE MCMethodCall ----------------------------
(***************************************************************************)
(* Methods with at most one parameter in the path, the query and the       *)
(* header each, and a body.  They come from the signature, from a group of *)
(* it or from the client.                                                  *)
(***************************************************************************)
EXTENDS MethodCall

Property(name, optional, type) == [name |-> name, optional |-> optional, type |-> type]

Group == Property("g", FALSE, "Group")

Op(name, kind, type, segments, flags) ==
    [name |-> name, kind |-> kind, type |-> type, segments |-> segments,
     optional |-> "optional" \in flags, client |-> "client" \in flags,
     mayBeEmpty |-> "mayBeEmpty" \in flags, each |-> "each" \in flags]

\* A parameter of the signature, of the client or of the group.
Direct(name, kind, type, flags) ==
    Op(name, kind, type, {<<Property(name, "optional" \in flags, type)>>}, flags)

Grouped(name, kind, type, flags) ==
    Op(name, kind, type, {<<Group, Property(name, "optional" \in flags, type)>>}, flags)

\* @override made an optional parameter required, or took it away.
Required(name, kind) == Op(name, kind, "number", {<<Property(name, FALSE, "number")>>}, {"optional"})
Removed(name, kind)  == Op(name, kind, "number", {}, {"optional"})

None == {}

Paths == {None} \cup {{o} : o \in
    {Direct("p", "path", type, flags) : type \in {"text", "number"}, flags \in {{}, {"optional"}, {"client"}}}
      \cup {Direct("p", "path", "text", {"mayBeEmpty"}), Direct("p", "path", "number", {"each"})}
      \cup {Grouped("p", "path", "text", flags) : flags \in {{}, {"optional"}, {"mayBeEmpty"}}}}

Queries == {None} \cup {{o} : o \in
    {Direct("q", "query", "text", flags) : flags \in {{}, {"optional"}, {"client"}, {"client", "optional"},
                                                      {"each"}, {"client", "optional", "each"}}}
      \cup {Grouped("q", "query", "text", flags) : flags \in {{}, {"optional"}, {"each"}}}
      \cup {Required("q", "query"), Removed("q", "query")}}

GroupedQuery == {Grouped("q", "query", "text", {})}

Headers == {None} \cup {{o} : o \in
    {Direct("h", "header", "number", flags) : flags \in {{}, {"optional"}, {"client"}, {"client", "optional"}}}
      \cup {Direct("accept", "header", "constant", {})}
      \cup {Direct("x-ms-client-request-id", "header", "text", {"optional"})}
      \cup {Grouped("h", "header", "number", flags) : flags \in {{}, {"optional"}}}
      \cup {Grouped("x-ms-client-request-id", "header", "text", {"optional"})}}

Spread(props) == Op("b", "body", "Model", {<<p>> : p \in props}, {})

\* The content type goes with the body.
Bodies == {None,
           {Direct("b", "body", "Model", {}), Direct("content-type", "header", "constant", {})},
           {Direct("b", "body", "Model", {"optional"}), Direct("content-type", "header", "constant", {"optional"})},
           {Spread({Property("x", FALSE, "number"), Property("y", TRUE, "text")})},
           {Grouped("b", "body", "Model", {"optional"})},
           {Spread({Property("y", TRUE, "number")})},
           {Spread({Property("x", FALSE, "Model"), Property("y", FALSE, "Part")})}}

ParamsOf(ops) == {Head(s) : s \in UNION {o.segments : o \in {p \in ops : ~p.client}}}

Described(ops, route) == [ops |-> ops, params |-> ParamsOf(ops), route |-> route]

Template(paths, queries, headers, bodies) ==
    {Described(p \cup q \cup h \cup b, "template") : p \in paths, q \in queries, h \in headers, b \in bodies}

GroupedHeader == {Grouped("h", "header", "number", {})}

\* Every path with every query, also in groups of two and three, and every
\* header with every body.
MCMethods == Template(Paths, Queries, {None, GroupedHeader}, {None})
               \cup Template({None}, {None}, Headers, Bodies)
               \cup {Described({p} \cup q, "direct") :
                        p \in {r \in UNION Paths : ~r.optional /\ ~r.each}, q \in {None, GroupedQuery}}

ASSUME Supported == \A m \in MCMethods : Emittable(m) /\ LiteralsRequired(m) /\ Overrides(m)
=============================================================================
