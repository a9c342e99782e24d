---------------------------- MODULE MCModelSerde -----------------------------
(***************************************************************************)
(* Crates of two or three models, in two modules: every pair of fields     *)
(* from a pool of JSON and from one of XML, the first of them once more in *)
(* the second module, and unions, pages, spread bodies, additional         *)
(* properties and models that two bodies share.                            *)
(*                                                                         *)
(* The pools leave out the shapes for which the code fails; README.md      *)
(* lists them with their lines.                                            *)
(***************************************************************************)
EXTENDS ModelSerde

MCMarks == {"-", "/", "."}

Prop(type, flags) ==
    [name |-> "", wire |-> "", type |-> type, optional |-> "required" \notin flags, readOnly |-> "readOnly" \in flags,
     xml |-> CASE "attribute" \in flags -> "attribute" [] "unwrapped" \in flags -> "unwrapped" [] OTHER -> "",
     xmlName |-> IF "xmlName" \in flags THEN "Named" ELSE "",
     emptyAsNull |-> "emptyAsNull" \in flags, deserializeWith |-> IF "custom" \in flags THEN "f" ELSE "",
     pageItems |-> "pageItems" \in flags]

\* A property under a name, renamed on the wire or not.
Named(p, name, wireName) ==
    [p EXCEPT !.name = name, !.wire = wireName,
              !.xmlName = IF p.xmlName = "" THEN "" ELSE IF name = "a" THEN "A1" ELSE "B1"]

Leaf(kind, enc) == Type(<<>>, kind, enc, <<>>)
In(wraps, t)      == [t EXCEPT !.wraps = wraps]

Text     == Leaf("String", "")
Number   == Leaf("int", "")
IntText  == Leaf("int", "string")
Bytes    == {Leaf("encodedBytes", enc) : enc \in {"std", "url"}}
Dates    == {Leaf("offsetDateTime", enc) : enc \in {"rfc3339", "rfc7231", "unix_time"}}
Fixed    == Leaf("offsetDateTime", "rfc3339-fixed-width")
LitOf(enc, of) == Type(<<>>, "literal", enc, of)
Lit(of)  == LitOf("string", of)
ModelT(m) == Type(<<>>, "model", "", <<m>>)
UnionT(u) == Type(<<>>, "discriminatedUnion", "", <<u>>)

Value(name, text) == [name |-> name, wire |-> text]

AnEnum(values, kind, flags) ==
    [values |-> values, kind |-> kind, fixed |-> "fixed" \in flags, merged |-> "merged" \in flags]

\* Two groups of values that coalesce, apart from one that does not; numbers;
\* and a union of two enums that share a value.
MCEnums ==
    ("E" :> AnEnum(<<Value(<<"p", "-", "q">>, "p-q"), Value(<<"r">>, "r"), Value(<<"s", "/", "t">>, "s/t"),
                     Value(<<"p", "q">>, "pq"), Value(<<"s", "t">>, "st")>>, "text", {}))
      @@ ("N" :> AnEnum(<<Value(<<"p">>, "1"), Value(<<"q">>, "2")>>, "number", {"fixed"}))
      @@ ("F" :> AnEnum(<<Value(<<"p">>, "p"), Value(<<"q">>, "q"), Value(<<"p">>, "p")>>, "text", {"fixed", "merged"}))

EnumT(e) == Type(<<>>, "enum", "", <<e>>)
UntaggedT(u) == Type(<<>>, "untagged", "", <<u>>)

\* From the widest to the narrowest.
MCUntagged ==
    ("V" :> <<Leaf("float", ""), Leaf("int", ""), Leaf("boolean", "")>>)
      @@ ("W" :> <<ModelT("C"), In(<<"Vec">>, Text), Text, EnumT("F")>>)

JsonPool ==
    {Prop(t, {}) : t \in {Text, Number, Leaf("decimal", "string"), ModelT("C"),
                          EnumT("E"), EnumT("N"), EnumT("F"), UntaggedT("V"), UntaggedT("W")} \cup Bytes \cup Dates}
    \cup {Prop(In(w, t), {}) : w \in {<<"Vec">>, <<"Vec", "hashmap">>}, t \in Bytes \cup {Leaf("offsetDateTime", "unix_time")}}
    \cup {Prop(Lit(v), f) : v \in {<<"x">>, <<"x", "-", "y">>}, f \in {{}, {"required"}}}
    \cup {Prop(LitOf("f64", <<"1", ".", "5">>), {"required"}), Prop(LitOf("i32", <<"1">>), {}), Prop(Lit(<<"1">>), {}),
          Prop(LitOf("enumvalue", <<"F", "_", "p">>), {"required"})}
    \cup {Prop(In(<<"box">>, ModelT("A")), {}), Prop(Text, {"readOnly"}),
          Prop(IntText, {"required"}), Prop(Leaf("decimal", ""), {"required"}), Prop(Number, {"emptyAsNull", "required"}),
          Prop(Number, {"custom", "required"}), Prop(In(<<"hashmap">>, Leaf("encodedBytes", "url")), {"custom"}),
          Prop(In(<<"Vec">>, Text), {}), Prop(In(<<"Vec">>, ModelT("C")), {"pageItems", "required"})}

XmlPool ==
    {Prop(t, {}) : t \in {Text, Number, Fixed, EnumT("E"), ModelT("C")} \cup Bytes \cup Dates}
    \cup {Prop(In(<<"box">>, ModelT("A")), {}), Prop(Text, {"attribute"}), Prop(Text, {"unwrapped"}),
          Prop(Text, {"xmlName"}), Prop(Number, {"attribute", "required"}),
          Prop(In(<<"Vec">>, Text), {"unwrapped"}), Prop(In(<<"Vec">>, Text), {}), Prop(In(<<"Vec">>, Number), {"xmlName"}),
          Prop(In(<<"Vec">>, ModelT("C")), {}), Prop(In(<<"Vec">>, Text), {"required", "pageItems"}),
          Prop(Lit(<<"x">>), {"required"})}

MkModel(props, flags) ==
    [props |-> props, usage |-> IF "spread" \in flags THEN {"spread"} ELSE {"input", "output"},
     visible |-> "spread" \notin flags /\ "base" \notin flags, base |-> "base" \in flags,
     additional |-> "additional" \in flags, discriminator |-> IF "subtype" \in flags THEN "kind" ELSE "", xmlName |-> ""]

Leafy == MkModel(<<Named(Prop(Text, {}), "t", "t")>>, {})

Returned(t, format, from) == [type |-> t, format |-> format, from |-> from]

Body(t, format) == Returned(t, format, "param")

Crate(models, mods, unions, bs) ==
    [models |-> models, modules |-> mods, unions |-> unions, enums |-> MCEnums, untagged |-> MCUntagged, bodies |-> bs]

\* A { a, b; c: C } in the root, B { a; c: C } and C in the module below.
Pair(p, q, format, flags) ==
    Crate(("A" :> MkModel(<<Named(p, "a", "a"), Named(q, "b", "bWire")>>, flags))
            @@ ("B" :> MkModel(<<Named(p, "a", "a")>>, flags)) @@ ("C" :> Leafy),
          <<<<"A">>, <<>>, <<"B", "C">>>>, <<>>,
          <<Body(ModelT("A"), format), Body(ModelT("B"), format)>>)

\* A model has one text at most.
TextIn(p) == p.xml = "unwrapped" /\ p.type.wraps = <<>>

Pairs(pool, format, flags) ==
    {Pair(x[1], x[2], format, flags) : x \in {y \in pool \X pool : ~(TextIn(y[1]) /\ TextIn(y[2]))}}

Spreadable == {p \in JsonPool : ~p.pageItems /\ ~p.emptyAsNull}

Extensible == [name |-> "U", module |-> 1, kind |-> "base", tag |-> "kind", members |-> ("a" :> "A" @@ "b" :> "B"), base |-> "Base"]
Enveloped  == [name |-> "U", module |-> 1, kind |-> "envelope", tag |-> "kind", members |-> ("a" :> "A" @@ "b" :> "B"), base |-> ""]

Kind == Named(Prop(Text, {"required"}), "kind", "kind")

UnionCrate(u, p, flags) ==
    Crate(("A" :> MkModel(<<Named(p, "a", "aWire"), Kind>>, flags)) @@ ("B" :> MkModel(<<Kind>>, flags)) @@ ("C" :> Leafy)
            @@ IF u.kind = "base" THEN ("Base" :> MkModel(<<Kind, Named(Prop(Text, {}), "t", "t")>>, {"base"})) ELSE <<>>,
          <<IF u.kind = "base" THEN <<"A", "B", "C", "Base">> ELSE <<"A", "B", "C">>>>, <<u>>,
          <<Body(UnionT("U"), "json")>>)

\* The union in another module than its members.
Apart == UnionCrate([Extensible EXCEPT !.module = 2], Prop(Text, {}), {"subtype"})

ForUnions == {p \in JsonPool : p.type.leaf.kind \notin {"int", "decimal", "model"} /\ p.deserializeWith = ""}

Shared(f, g) ==
    Crate(("A" :> MkModel(<<Named(Prop(ModelT("C"), {}), "a", "a")>>, {})) @@ ("C" :> Leafy), <<<<"A", "C">>>>, <<>>,
          <<Body(ModelT("A"), f), Body(Text, "json"), Body(ModelT("C"), g)>>)

\* A poller whose status C is in no other body, or in that of a response.
Polled(from, format) ==
    Crate(("A" :> Leafy) @@ ("C" :> MkModel(<<Named(Prop(Number, {"required"}), "n", "count")>>, {})), <<<<"A", "C">>>>, <<>>,
          <<Returned(ModelT("A"), "json", "pager"), Returned(ModelT("C"), format, "poller")>>
            \o IF from = "poller" THEN <<>> ELSE <<Returned(ModelT("C"), format, from)>>)

MCCrates ==
    Pairs(JsonPool, "json", {}) \cup Pairs(XmlPool, "xml", {}) \cup Pairs(Spreadable, "json", {"spread"})
      \cup {UnionCrate(Extensible, p, {"subtype"}) : p \in ForUnions}
      \cup {Apart}
      \cup {UnionCrate(Enveloped, p, {}) : p \in ForUnions}
      \cup {Pair(Prop(Text, {}), Prop(Number, f), format, {"additional"}) : f \in {{}, {"attribute"}}, format \in {"xml"}}
      \cup {Pair(p, Prop(Number, {}), "json", {"additional"}) : p \in JsonPool}
      \cup {Polled("poller", "json")} \cup {Polled("response", format) : format \in {"json", "xml"}}
      \cup {Shared(f, g) : f \in {"json", "xml"}, g \in {"json", "xml"}}
      \cup {Pair(Prop(Text, {}), Prop(In(<<"Vec">>, Lit(<<"x">>)), {}), "json", {})}

\* What the theorems about ModelSerde suppose of a crate; those about messages
\* suppose nothing of one that cannot be emitted.
ASSUME Supposed ==
    \A c \in MCCrates : ReachedPlainly(c) /\ HelpersSupported(c) /\ ReadingSupported(c) /\ (SendingSupported(c) \/ c = Apart)
=============================================================================
