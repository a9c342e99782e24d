----------------------------- MODULE SerdeFields -----------------------------
(***************************************************************************)
(* One field of an emitted model: how Adapter.getModelField makes it from  *)
(* a property, and which serde attributes and helpers models.ts gives it.  *)
(*                                                                         *)
(* A type is a sequence of wrappers, outermost first, around a leaf of a   *)
(* kind, with an encoding and, for literals and models, the value or name. *)
(* A literal is a sequence of pieces, each a word or a mark.  A path names *)
(* the function of an attribute: where it is, and then its name.           *)
(*                                                                         *)
(* A definition Name_Fault is Name with a plausible mistake in the code;   *)
(* no specification uses it: the properties must fail with it.             *)
(***************************************************************************)
EXTENDS Naturals, Sequences, FiniteSets, SequencesExt

\* The pieces of literals that are not word characters.
CONSTANT Marks

ASSUME MarksAssumption == {"_", "point"} \cap Marks = {}

Type(wraps, kind, enc, of) == [wraps |-> wraps, leaf |-> [kind |-> kind, enc |-> enc, of |-> of]]

Outer(t) == IF t.wraps = <<>> THEN t.leaf.kind ELSE Head(t.wraps)

Inner(t) == [t EXCEPT !.wraps = Tail(@)]

UnwrapOption(t) == IF Outer(t) = "option" THEN Inner(t) ELSE t

\* helpers.unwrapType, which goes through everything but a Box.
UnwrapType(t) == IF Contains(t.wraps, "box") THEN [kind |-> "box", enc |-> "", of |-> <<>>] ELSE t.leaf

Option(t) == [t EXCEPT !.wraps = <<"option">> \o @]

----------------------------------------------------------------------------
(* The adapter. *)

\* getXMLKind: @unwrapped makes a list of repeated elements, or text.
XMLKind(p) == CASE p.xml = "attribute" -> "attribute"
                [] p.xml = "unwrapped" /\ Outer(p.type) = "Vec" -> "unwrappedList"
                [] p.xml = "unwrapped" /\ Outer(p.type) = "String" -> "text"
                [] OTHER -> ""

NotSpreadOnly(usage) == "spread" \notin usage \/ usage \cap {"input", "output"} # {}

\* getModelField.  The items of a page lose their Option again.
GetModelField(usage, p) ==
    [name |-> p.name,
     serde |-> IF p.xmlName # "" THEN p.xmlName ELSE p.wire,
     type |-> IF (NotSpreadOnly(usage) \/ p.optional) /\ ~p.pageItems THEN Option(p.type) ELSE p.type,
     optional |-> p.optional, readOnly |-> p.readOnly, xmlKind |-> XMLKind(p),
     emptyAsNull |-> p.emptyAsNull, deserializeWith |-> p.deserializeWith]

----------------------------------------------------------------------------
(* The emitter: which functions read and write a field. *)

EncodeAsString(leaf) == leaf.kind = "int" /\ leaf.enc = "string"

IsLiteral(leaf) == leaf.kind = "literal"

HasHelper(leaf) == leaf.kind \in {"encodedBytes", "literal", "offsetDateTime"} \/ EncodeAsString(leaf)

\* The leaf, or an Option of it; a polymorphic base holds references.
Direct(t) == t.wraps \in {<<>>, <<"option">>, <<"ref", "option">>}

OptionPath(t) == IF Contains(t.wraps, "option") THEN <<"option">> ELSE <<>>

SerDeModName_NoEncoding(t) == t.wraps \o <<t.leaf.kind>>

\* buildSerDeModName; a literal in a collection has none.
SerDeModName(t) == t.wraps \o <<t.leaf.kind, t.leaf.enc>>

\* A mark of a text becomes an underscore and the point of a number a word; a
\* sign stays what it is, and so does what is in the name of an enum value.
Converted(leaf, piece) ==
    IF leaf.enc = "string" /\ piece \in Marks THEN "_"
    ELSE IF leaf.enc \notin {"string", "enumvalue"} /\ piece = "." THEN "point" ELSE piece

\* A run of underscores becomes one, also with the underscore in front.
Identifier(leaf) ==
    LET Word(i)     == Converted(leaf, leaf.of[i])
        Repeated(i) == Word(i) = "_" /\ (i = 1 \/ Word(i - 1) = "_")
    IN FlattenSeq([i \in DOMAIN leaf.of |-> IF Repeated(i) THEN <<>> ELSE <<Word(i)>>])

\* Rust has no marks in names.
LegalName(leaf) == \A i \in DOMAIN leaf.of : Converted(leaf, leaf.of[i]) \notin Marks

\* serdeLiteral: the name holds the kind and the value of the literal.
LiteralName(f) ==
    <<IF f.optional THEN "serialize_optional" ELSE "serialize", f.type.leaf.enc>> \o Identifier(f.type.leaf)

\* serdeOffsetDateTime is only for the formats azure_core knows.
CoreTime(f, format) ==
    \/ format = "json"
    \/ f.type.leaf.enc \notin IF f.type.wraps = <<>> THEN {"rfc3339"} ELSE {"rfc3339", "rfc3339-fixed-width"}

\* addSerDeHelper: the functions for a leaf that serde itself cannot write.
HelperPath(f, format) ==
    LET leaf == f.type.leaf
    IN IF EncodeAsString(leaf) THEN <<"as_string">>
       ELSE IF Direct(f.type) /\ leaf.kind = "encodedBytes" THEN <<"base64", leaf.enc>> \o OptionPath(f.type)
       ELSE IF Direct(f.type) /\ IsLiteral(leaf) THEN <<"models_serde">> \o LiteralName(f)
       ELSE IF Direct(f.type) /\ leaf.kind = "offsetDateTime" /\ CoreTime(f, format)
       THEN <<"time", leaf.enc>> \o OptionPath(f.type)
       ELSE <<"models_serde">> \o SerDeModName(f.type)

IsWrappedList(f, format) ==
    format = "xml" /\ Outer(UnwrapOption(f.type)) = "Vec" /\ f.xmlKind # "unwrappedList"

\* The element of an item: the name of the type in TypeSpec.
ItemName(t) == CASE t.leaf.kind = "String" -> "string"
                 [] t.leaf.kind = "int" -> "int32"
                 [] OTHER -> t.leaf.of[1]

\* getXMLListWrapper.
WrapperName(f) == <<f.name, ItemName(f.type)>>

Param(key, path) == [key |-> key, path |-> path]

RenameParams(f) ==
    IF f.name = f.serde /\ f.xmlKind \notin {"attribute", "text"} THEN {}
    ELSE {Param("rename", CASE f.xmlKind = "text" -> <<"$text">>
                            [] f.xmlKind = "attribute" -> <<"@", f.serde>>
                            [] OTHER -> <<f.serde>>)}

Custom(f) == f.deserializeWith # ""

\* A custom function to read a field goes before the emitted one.
WithParams(f, path) ==
    IF Custom(f) THEN {Param("deserialize_with", <<"custom">>), Param("serialize_with", path)}
    ELSE {Param("with", path)}

Default == {Param("default", <<>>)}

CustomParams(f) == IF Custom(f) THEN {Param("deserialize_with", <<"custom">>)} ELSE {}

CodecParams(f, format) ==
    LET leaf == UnwrapType(f.type)
    IN IF HasHelper(leaf) /\ Direct(f.type) /\ IsLiteral(leaf)
       THEN CustomParams(f) \cup {Param("serialize_with", HelperPath(f, format))}
       ELSE IF HasHelper(leaf)
       THEN WithParams(f, HelperPath(f, format)) \cup IF EncodeAsString(leaf) THEN {} ELSE Default
       ELSE IF IsWrappedList(f, format)
       THEN WithParams(f, <<"xml_helpers">> \o WrapperName(f)) \cup Default
       ELSE IF Custom(f) THEN CustomParams(f)
       ELSE IF f.emptyAsNull THEN {Param("deserialize_with", <<"empty_as_null">>)} ELSE {}

SkipParams(f) ==
    IF f.readOnly THEN {Param("skip_serializing", <<>>)}
    ELSE IF Outer(f.type) = "option" /\ (f.optional \/ ~IsLiteral(Inner(f.type).leaf) \/ Len(f.type.wraps) > 1)
         THEN {Param("skip_if_none", <<>>)} ELSE {}

DefaultParams(f, visible) == IF visible /\ Outer(f.type) # "option" THEN Default ELSE {}

DecimalParams(f) ==
    LET leaf == UnwrapType(f.type)
    IN IF leaf.kind = "decimal" /\ leaf.enc # "string"
       THEN {Param("with", <<"float">> \o IF Outer(f.type) = "option" THEN <<"option">> ELSE <<>>)} ELSE {}

\* The serde attribute of a field of a model that is pub, or not.
SerdeParams(f, format, visible) ==
    RenameParams(f) \cup CodecParams(f, format) \cup SkipParams(f) \cup DefaultParams(f, visible) \cup DecimalParams(f)

----------------------------------------------------------------------------
(* The emitted helpers. *)

\* The helpers are built of one piece per wrapper and one for the leaf.
Pieces(t) == t.wraps \o <<t.leaf.kind>>

Caller(t, i) == IF i = 1 THEN "start" ELSE t.wraps[i - 1]

\* What recursiveBuildSerializeBody makes of a piece for its caller: a
\* statement that defines the variable the caller goes on with, one that puts
\* a value into its map, a function for each item of its list, or the bare
\* value.  A fixed width is formatted by a call that may fail.
SerializeForm(kind, enc, caller) ==
    CASE kind = "option" -> IF caller = "start" THEN "returns" ELSE "none"
      [] kind \in {"encodedBytes", "offsetDateTime", "hashmap", "Vec"} ->
           IF caller = "hashmap" THEN "insert"
           ELSE IF caller = "Vec"
           THEN (IF kind = "offsetDateTime" /\ enc = "rfc3339-fixed-width" THEN "fails" ELSE "function")
           ELSE IF kind \in {"hashmap", "Vec"} \/ (kind = "offsetDateTime" /\ caller = "option")
           THEN "let" ELSE "value"
      [] OTHER -> "none"

\* recursiveBuildDeserializeBody, likewise.
DeserializeForm(kind, caller) ==
    CASE kind = "option" -> IF caller = "start" THEN "returns" ELSE "none"
      [] kind \in {"encodedBytes", "offsetDateTime", "hashmap", "Vec"} ->
           IF caller = "hashmap" THEN "insert"
           ELSE IF caller = "Vec" THEN "push"
           ELSE IF kind \in {"hashmap", "Vec"} \/ (kind = "offsetDateTime" /\ caller = "option")
           THEN "let" ELSE "value"
      [] OTHER -> "value"

Wanted(caller) == CASE caller = "start" -> {"let", "returns"}
                    [] caller = "option" -> {"let"}
                    [] caller = "hashmap" -> {"insert"}
                    [] caller = "Vec" -> {"function", "push"}
                    [] OTHER -> {}

\* The body of a helper compiles when every piece is what its caller wants.
SerializeCompiles(t) ==
    \A i \in DOMAIN Pieces(t) : SerializeForm(Pieces(t)[i], t.leaf.enc, Caller(t, i)) \in Wanted(Caller(t, i))

DeserializeCompiles(t) ==
    \A i \in DOMAIN Pieces(t) : DeserializeForm(Pieces(t)[i], Caller(t, i)) \in Wanted(Caller(t, i))
=============================================================================
