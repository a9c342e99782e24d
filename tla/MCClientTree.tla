---------------------------- MODULE MCClientTree ----------------------------
(***************************************************************************)
(* Packages of one or two services: a root with one or two children, one   *)
(* of which has a child, and a second root.                                *)
(***************************************************************************)
EXTENDS ClientTree

Par(name, kind, flags) == [name |-> name, kind |-> kind, apiVersion |-> "apiVersion" \in flags,
                           optional |-> "optional" \in flags, default |-> "default" \in flags,
                           field |-> name, template |-> <<>>, schemes |-> <<>>]

Endpoint == Par(<<"endpoint">>, "endpoint", {})

\* {endpoint}/{path}/{version}
Templated == [Endpoint EXCEPT !.template =
                 <<[name |-> <<"path">>, optional |-> FALSE, default |-> FALSE],
                   [name |-> <<"version">>, optional |-> FALSE, default |-> TRUE]>>]

\* An endpoint with @clientName.
Renamed == [Endpoint EXCEPT !.field = <<"url">>]

Credentials(schemes) == [Par(<<"credential">>, "credential", {}) EXCEPT !.schemes = schemes]

Token == Credentials(<<"oauth2">>)

Version == Par(<<"api", "version">>, "method", {"apiVersion", "default"})

MergedVersion == Par(<<"api", "version">>, "method", {"apiVersion", "optional"})

Key1 == Par(<<"key">>, "method", {})

Region == Par(<<"region">>, "method", {"optional"})

Blob == Par(<<"blob">>, "method", {})

\* A client parameter that an operation has, by the name of p.
Reads(p, kind) == [name |-> p.name, kind |-> kind, field |-> p.name, optional |-> p.optional]

\* A parameter may be in the path of one operation and in the query of another.
AllReads(params) ==
    FoldLeft(LAMBDA rs, p : rs \o (IF p.kind # "method" THEN <<>>
                                   ELSE <<Reads(p, "query"), Reads(p, "path")>>), <<>>, params)

Client(name, by, children, params) ==
    [name |-> name, clientName |-> FALSE, by |-> by, children |-> children, params |-> params,
     methods |-> TRUE, reads |-> AllReads(params)]

\* The same, without methods.
Bare(client) == [client EXCEPT !.methods = FALSE, !.reads = <<>>]

\* What a sub-client has of its parent: the endpoint and whatever it reads.
Below(params, left) == SelectSeq(<<Endpoint>> \o SelectSeq(params, LAMBDA p : p.kind # "endpoint"),
                                 LAMBDA p : p.name \notin left)

Package(clients, roots) == [clients |-> clients, roots |-> roots]

\* One service.  The second child can be created without the root as well.
RootParams == {<<e>> \o rest : e \in {Endpoint, Templated},
                               rest \in {<<Version>>, <<Version, Key1>>, <<Token, Version, Region>>}}
                \cup {<<Version, Key1, Endpoint>>}

OneService ==
    {Package([r |-> Client("Chat", by, <<"a", "b">>, params),
              a |-> Client("Completions", "parent", <<"g">>, Below(params, left) \o own),
              g |-> Client("Completions", "parent", <<>>, Below(params, left \cup {<<"key">>}) \o own),
              b |-> [Client("Blob", second, <<>>, Below(params, {<<"region">>}) \o <<Blob>>)
                        EXCEPT !.clientName = second = "both"],
              s |-> [Client("Completions", "individually", <<>>, <<Endpoint>>) EXCEPT !.clientName = TRUE]],
             <<"r", "s">>) :
        by \in {"code", "individually"}, second \in {"individually", "both", "parent"},
        params \in RootParams, left \in {{}, {<<"region">>}}, own \in {<<>>, <<Blob>>}}

\* A client that has no sub-clients and a name for its endpoint.
Alone == {Package([r |-> Client("Chat", "individually", <<>>, <<Renamed>> \o rest)], <<"r">>) :
             rest \in {<<>>, <<Version>>, <<Key1, Region>>, <<Credentials(<<"apiKey", "noAuth">>)>>}}

\* One scheme, or a union of up to three: two flows of OAuth2 among them.
Unions == {u \in UNION {[1..n -> {"noAuth", "oauth2", "apiKey"}] : n \in 1..3} :
              \A i, j \in DOMAIN u : u[i] = "noAuth" /\ u[j] = "noAuth" => i = j}

\* Several services, each child with its version; the root has what any child has.
SeveralServices ==
    {Package([r |-> Bare(Client("Chat", "individually", <<"a", "b">>, <<Credentials(schemes), Endpoint>> \o merged)),
              a |-> Client("Completions", "parent", <<"g">>, <<Endpoint, Version>>),
              g |-> Client("Blob", "parent", <<>>, <<Endpoint, Version>>),
              b |-> Client("Blob", "parent", <<>>, <<Endpoint, Version>> \o own)], <<"r">>) :
        merged \in {<<MergedVersion>>, <<MergedVersion, Key1>>}, own \in {<<>>, <<Blob>>},
        schemes \in Unions}

\* What the adapter rejects: the root has a method or no child, or nobody creates it.
Rejects ==
    {Package([r |-> Client("Chat", "individually", <<"a">>, <<Endpoint, MergedVersion>>),
              a |-> Client("Blob", "parent", <<>>, <<Endpoint, Version>>)], <<"r">>),
     Package([r |-> Bare(Client("Chat", "individually", <<>>, <<Endpoint, MergedVersion>>))], <<"r">>),
     Package([r |-> Client("Chat", "parent", <<>>, <<Endpoint>>)], <<"r">>)}

MCPackages == OneService \cup Alone \cup SeveralServices \cup Rejects

\* The theorems are about these.
ASSUME Supported == /\ \A p \in MCPackages : WellNamed(p) /\ OnceEach(p)
                    /\ \A p \in MCPackages \ Rejects : Coherent(p) /\ AccessorsFit(p)
=============================================================================
