--------------------------- MODULE MCTypeAdapter ---------------------------
(* Families of type graphs for TypeAdapter. *)
EXTENDS TypeAdapter, TLC

CONSTANTS a, b, c, d, u, v   \* models and unions

MCModels == {a, b, c, d}
MCUnions == {u, v}

UpTo1(S) == {<<>>} \cup {<<x>> : x \in S}
UpTo2(S) == UpTo1(S) \cup {<<x, y>> : x, y \in S}

To(S)     == [to : S, heap : {FALSE}]
OrHeap(S) == [to : S, heap : BOOLEAN]
Val(n)    == [to |-> n, heap |-> FALSE]

NoAddl == [m \in Models |-> {}]
Flat   == [n \in Nodes |-> 0]

(* a refers to the rest, u is a union of every kind with c or d as a variant   *)
(* (b is the model of its unknown variant), v is an untagged union of d, and   *)
(* the additional properties of a are of type u: nothing leads back through u, *)
(* v or the additional properties.                                             *)
LayeredSchemas ==
    {[refs  |-> (a :> ra) @@ (b :> rb) @@ (c :> rc) @@ (d :> rd) @@ (v :> <<Val(d)>>)
                @@ (u :> (IF k = "extensible" THEN <<Val(b)>> ELSE <<>>) \o ru),
      addl  |-> [NoAddl EXCEPT ![a] = aa],
      kind  |-> (u :> k) @@ (v :> "untagged"),
      level |-> (a :> 3) @@ (u :> 2) @@ (b :> 2) @@ (c :> 2) @@ (v :> 1) @@ (d :> 0),
      roots |-> IF k = "untagged" THEN <<v, u, a, c, d>> ELSE <<v>> \o o] :
        ra \in UpTo2(OrHeap({c, u})), rb \in UpTo1(To({c, d, v})),
        rc \in UpTo1(To({c, d, v})), rd \in UpTo1(To({d})), ru \in UpTo1(To({c, d})),
        k \in UnionKinds, aa \in {{}, {u}}, o \in {<<a, u, c, d>>, <<d, c, u, a>>}}

ASSUME Layered == \A s \in LayeredSchemas : Stratified(s) /\ Listed(s)

(* Three models that refer to each other in every way, a through the heap as  *)
(* well.                                                                       *)
ModelSchemas ==
    {[refs  |-> (a :> ra) @@ (b :> rb) @@ (c :> rc) @@ [n \in {d, u, v} |-> <<>>],
      addl  |-> NoAddl,
      kind  |-> [n \in {u, v} |-> "untagged"],
      level |-> Flat,
      roots |-> <<a, b, c>>] :
        ra \in UpTo2(OrHeap({a, b, c})), rb \in UpTo2(To({a, b, c})),
        rc \in UpTo1(To({a, b, c}))}

ModelsAndUnions == LayeredSchemas \cup ModelSchemas

(* a { u: U }, b { a: A }, U = b, where a is visited first. *)
DiscriminatedCycle ==
    {[refs  |-> (a :> <<Val(u)>>) @@ (b :> <<Val(a)>>) @@ (c :> <<>>) @@ (d :> <<>>)
                @@ (v :> <<>>) @@ (u :> <<Val(b)>>),
      addl  |-> NoAddl, kind |-> (u :> "sealed") @@ (v :> "untagged"), level |-> Flat,
      roots |-> <<a, u, b>>]}
=============================================================================
