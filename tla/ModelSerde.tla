----------------------------- MODULE ModelSerde ------------------------------
(***************************************************************************)
(* The models of a crate, from the bodies of its methods to the messages   *)
(* that the emitted code exchanges with the service: Context collects the  *)
(* format of every model, emitModels gives every field its attributes and  *)
(* collects helpers, module by module, and emitUnions the tags of unions.  *)
(* serde, which is external, then writes and reads by these attributes.    *)
(*                                                                         *)
(* A value is abstracted to the set of the fields that are given, and the  *)
(* values of enums and untagged unions among these; what is sent for a     *)
(* field is an entry with its name, the mark of an attribute or text, how  *)
(* a list is written, the encoding and the value of a literal or an enum.  *)
(***************************************************************************)
EXTENDS EnumValues

CONSTANT Crates

----------------------------------------------------------------------------
(* What the adapter hands over. *)

Wrappers == {"option", "box", "ref", "Vec", "hashmap"}

\* The kinds of leaves that the emitter tells apart.
Kinds == {"String", "boolean", "int", "float", "decimal", "literal", "encodedBytes", "offsetDateTime",
          "enum", "model", "untagged", "discriminatedUnion"}

\* How the values of a kind may be encoded; of a literal, the type it is of.
Encodings(kind) ==
    CASE kind \in {"int", "decimal"} -> {"", "string"}
      [] kind = "encodedBytes"       -> {"std", "url"}
      [] kind = "offsetDateTime"     -> {"rfc3339", "rfc3339-fixed-width", "rfc7231", "unix_time"}
      [] kind = "literal"            -> {"string", "enumvalue", "bool", "f32", "f64", "i8", "i16", "i32", "i64",
                                         "u8", "u16", "u32", "u64"}
      [] OTHER                       -> {""}

\* A type names only what the crate has; only models and unions are boxed.
Types(c) ==
    {t \in [wraps : Seq(Wrappers), leaf : [kind : Kinds, enc : STRING, of : Seq(STRING)]] :
        /\ t.leaf.enc \in Encodings(t.leaf.kind)
        /\ Contains(t.wraps, "box") => t.leaf.kind \in {"model", "discriminatedUnion"}
        /\ t.leaf.kind \in {"enum", "model", "untagged"} =>
            /\ t.leaf.of # <<>>
            /\ t.leaf.of[1] \in CASE t.leaf.kind = "enum"     -> DOMAIN c.enums
                                   [] t.leaf.kind = "model"    -> DOMAIN c.models
                                   [] t.leaf.kind = "untagged" -> DOMAIN c.untagged}

Properties(c) ==
    [name : STRING, wire : STRING, type : Types(c), optional : BOOLEAN, readOnly : BOOLEAN,
     xml : {"", "attribute", "unwrapped"}, xmlName : STRING, emptyAsNull : BOOLEAN,
     deserializeWith : STRING, pageItems : BOOLEAN]

Models(c) ==
    [props : Seq(Properties(c)), usage : SUBSET {"input", "output", "spread"}, visible : BOOLEAN,
     base : BOOLEAN, additional : BOOLEAN, discriminator : STRING, xmlName : STRING]

Enums == [values : Seq([name : Seq(STRING), wire : STRING]), kind : {"text", "number"},
          fixed : BOOLEAN, merged : BOOLEAN]

\* What a body of a method is: its parameter, or what it returns.
Origins == {"param", "response", "pager", "poller"}

IsCrate(c) ==
    /\ c.models \in [DOMAIN c.models -> Models(c)]
    /\ c.modules \in Seq(Seq(DOMAIN c.models))
    /\ c.bodies \in Seq([type : Types(c), format : {"json", "xml"}, from : Origins])
    /\ c.enums \in [DOMAIN c.enums -> Enums]
    /\ c.untagged \in [DOMAIN c.untagged -> Seq(Types(c))]
    /\ c.unions = [i \in 1..Len(c.unions) |-> c.unions[i]] /\ Len(c.unions) \in Nat

ASSUME SerdeAssumption == \A c \in Crates : IsCrate(c)

----------------------------------------------------------------------------
(* What a crate is made of. *)

Elements(s) == {s[i] : i \in DOMAIN s}

MembersOf(u) == {u.members[v] : v \in DOMAIN u.members}

\* The unions of a module that a model is a member of.
Holding(c, i, m) == {k \in DOMAIN c.unions : c.unions[k].module = i /\ m \in MembersOf(c.unions[k])}

\* The base of a polymorphic union is only written, from references.
ModelFields(model) ==
    [i \in DOMAIN model.props |->
       LET f == GetModelField(model.usage, model.props[i])
       IN IF model.base THEN [f EXCEPT !.type.wraps = <<"ref">> \o @] ELSE f]

\* The discriminator is no field of a subtype: serde writes it as the tag.
EmittedFields(model) == {f \in Elements(ModelFields(model)) : f.name # model.discriminator}

\* The models a type leads to, by value, in a box or as members of a union.
Leads(c, t) ==
    CASE t.leaf.kind = "model" -> {t.leaf.of[1]}
      [] t.leaf.kind = "discriminatedUnion" ->
           UNION {MembersOf(u) : u \in {w \in Elements(c.unions) : w.name = t.leaf.of[1]}}
      [] t.leaf.kind = "untagged" -> {v.leaf.of[1] : v \in {w \in ToSet(c.untagged[t.leaf.of[1]]) : w.leaf.kind = "model"}}
      [] OTHER -> {}

Closed(c, S) == \A m \in S : UNION {Leads(c, f.type) : f \in Elements(ModelFields(c.models[m]))} \subseteq S

\* The models in the bodies of a format: the least closed set.
AskedOf(c, format) ==
    LET start == UNION {Leads(c, b.type) : b \in {d \in Elements(c.bodies) : d.format = format}}
    IN {m \in DOMAIN c.models : \A S \in SUBSET DOMAIN c.models : start \subseteq S /\ Closed(c, S) => m \in S}

AskedFormatOf(c, m) == IF m \in AskedOf(c, "xml") THEN "xml" ELSE "json"

\* recursiveAddBodyFormat goes through collections and Options, but not into a
\* Box or the members of a union.
PlainLeads(t) == IF UnwrapType(t).kind = "model" THEN {UnwrapType(t).of[1]} ELSE {}

PlainlyClosed(c, S) == \A m \in S : UNION {PlainLeads(f.type) : f \in Elements(ModelFields(c.models[m]))} \subseteq S

\* The types that get the format of a body: of what a method returns, pagers and
\* responses have a case of their own, pollers have none.
Collected(b) == IF b.from = "poller" THEN <<>> ELSE <<b.type>>

\* The models of a format that it reaches.
Plainly(c, format) ==
    LET start == UNION {PlainLeads(b.type) : b \in {d \in Elements(c.bodies) : d.format = format /\ Collected(d) # <<>>}}
    IN {m \in DOMAIN c.models : \A S \in SUBSET DOMAIN c.models : start \subseteq S /\ PlainlyClosed(c, S) => m \in S}

----------------------------------------------------------------------------
(* The descriptions that the emitter supports: what the theorems suppose. *)

\* JSON is what a model has that no format reaches; the status of a poller is
\* reached by another body only.
ReachedPlainly(c) ==
    AskedOf(c, "xml") \subseteq Plainly(c, "xml") /\ AskedOf(c, "xml") \cap AskedOf(c, "json") \subseteq Plainly(c, "json")

\* Collections, in an Option or not, that a helper can be emitted for; an item
\* of a list cannot have a fixed width.
Nested(t) ==
    /\ t.wraps # <<>>
    /\ \A i \in DOMAIN t.wraps : t.wraps[i] \in {"Vec", "hashmap"} \/ (i = 1 /\ t.wraps[i] = "option")
    /\ ~(Last(t.wraps) = "Vec" /\ t.leaf.kind = "offsetDateTime" /\ t.leaf.enc = "rfc3339-fixed-width")

\* Names of enum values are Rust names, and numbers have no sign or exponent.
OnlyPoints(leaf) == \A i \in DOMAIN leaf.of : leaf.of[i] \in Marks => leaf.of[i] = "." /\ leaf.enc # "enumvalue"

\* The fields that the functions of azure_core and the helpers are made for.
FieldSupported(f, format) ==
    LET leaf   == UnwrapType(f.type)
        simple == f.type.wraps \in {<<>>, <<"option">>}
    IN /\ EncodeAsString(leaf) => simple
       /\ leaf.kind \in {"encodedBytes", "offsetDateTime"} =>
            IF Direct(f.type) /\ (leaf.kind = "encodedBytes" \/ CoreTime(f, format))
            THEN simple /\ leaf.enc # "rfc3339-fixed-width" ELSE Nested(f.type)
       /\ leaf.kind = "decimal" /\ leaf.enc # "string" => simple /\ ~Custom(f) /\ ~f.emptyAsNull
       /\ f.emptyAsNull => Outer(f.type) = "option"
       /\ IsLiteral(leaf) /\ leaf.enc # "string" => OnlyPoints(leaf)

\* The fields of a module, and those that are wrapped lists in XML.
FieldsIn(c, i) == UNION {EmittedFields(c.models[m]) : m \in Elements(c.modules[i])}

ListsIn(c, i) ==
    UNION {{f \in EmittedFields(c.models[m]) : ~HasHelper(UnwrapType(f.type)) /\ IsWrappedList(f, AskedFormatOf(c, m))} :
              m \in Elements(c.modules[i])}

\* Two fields that share a helper agree on what it is for.
Agree(f, g) ==
    /\ IsLiteral(f.type.leaf) /\ IsLiteral(g.type.leaf) /\ LiteralName(f) = LiteralName(g)
         => f.type.wraps = g.type.wraps
    /\ f.type.leaf.kind \in {"encodedBytes", "offsetDateTime"} /\ SerDeModName(f.type) = SerDeModName(g.type)
         => Custom(f) = Custom(g)

\* The options of an attribute that name functions.
Codecs == {"with", "serialize_with", "deserialize_with"}

\* The functions of models_serde or xml_helpers that an attribute names.
NamedIn(params, module) == {Tail(p.path) : p \in {q \in params : q.key \in Codecs /\ q.path[1] = module}}

\* Every field fits a function of azure_core or a helper, and helpers of the
\* same name in a module are the same.
HelpersSupported(c) ==
    /\ \A m \in DOMAIN c.models :
          /\ \A f, g \in Elements(ModelFields(c.models[m])) : f.name = g.name => f = g
          /\ EmittedFields(c.models[m]) # {} => \E i \in DOMAIN c.modules : m \in Elements(c.modules[i])
          /\ \A f \in EmittedFields(c.models[m]) :
                /\ FieldSupported(f, AskedFormatOf(c, m))
                /\ c.models[m].additional /\ AskedFormatOf(c, m) = "xml"
                     => \A module \in {"models_serde", "xml_helpers"} :
                           NamedIn(SerdeParams(f, "xml", c.models[m].visible), module) = {}
    /\ \A i \in DOMAIN c.modules :
          /\ \A f, g \in FieldsIn(c, i) : Agree(f, g)
          /\ \A f, g \in ListsIn(c, i) : WrapperName(f) = WrapperName(g)
                => f.type.wraps = g.type.wraps /\ f.type.leaf.kind = g.type.leaf.kind
    /\ \A n \in DOMAIN c.enums : \A v \in ToSet(c.enums[n].values) :
          ~c.enums[n].fixed /\ ~c.enums[n].merged => FixUpEnumValueName(v) # UnknownValue("").name

\* An XML model with additional properties is written without attributes.
PlainlyWritten(p) ==
    /\ ~p.readOnly /\ p.xml # "unwrapped" /\ ~Contains(p.type.wraps, "Vec")
    /\ p.type.leaf.kind \notin {"literal", "decimal", "encodedBytes", "offsetDateTime"} /\ p.type.leaf.enc = ""

\* The properties whose place in a message the attributes give: @unwrapped is
\* for text and lists, and a wrapper for lists alone whose items have no helper.
PropertySupported(p, format) ==
    /\ p.name # "additional_properties" /\ {p.wire, p.xmlName} \cap {"@", "$text"} = {}
    /\ format = "json" => p.xml = "" /\ p.xmlName = ""
    /\ format = "xml" =>
          /\ p.xml = "unwrapped" /\ p.type.wraps = <<>> => p.type.leaf.kind = "String"
          /\ Contains(p.type.wraps, "Vec") => Outer(p.type) = "Vec" /\ (p.xml = "unwrapped" \/ ~HasHelper(p.type.leaf))

\* A member of an extensible union has a tag of its own, which it looks for in
\* its module alone and only a derived function writes; of another it has none.
MemberSupported(c, u, m) ==
    /\ \A w \in Elements(c.unions) : m \in MembersOf(w) => w = u
    /\ IF u.kind = "base" THEN c.models[m].discriminator # "" /\ ~c.models[m].base /\ c.models[m].xmlName = ""
            /\ ~(c.models[m].additional /\ AskedFormatOf(c, m) = "xml")
            /\ {i \in DOMAIN c.modules : Contains(c.modules[i], m)} = {u.module}
       ELSE c.models[m].discriminator = ""

\* Names tell the properties of a model apart, literals of a module, and the
\* values of merged enums; bases are JSON and keep all their properties.
SendingSupported(c) ==
    /\ \A m \in DOMAIN c.models :
          LET model  == c.models[m]
              format == AskedFormatOf(c, m)
          IN /\ \A p, q \in Elements(model.props) : p.name = q.name => p = q
             /\ \A p \in Elements(model.props) :
                   /\ PropertySupported(p, format)
                   /\ model.base => format = "json" /\ p.name # model.discriminator
                   /\ format = "xml" /\ model.additional => PlainlyWritten(p)
    /\ \A i \in DOMAIN c.modules : \A f, g \in FieldsIn(c, i) :
          IsLiteral(f.type.leaf) /\ IsLiteral(g.type.leaf) /\ LiteralName(f) = LiteralName(g) => f.type.leaf.of = g.type.leaf.of
    /\ \A n \in DOMAIN c.enums : c.enums[n].merged =>
          /\ c.enums[n].kind = "text"
          /\ \A v, w \in ToSet(c.enums[n].values) : FixUpEnumValueName(v) = FixUpEnumValueName(w) => v.wire = w.wire
    /\ \A u \in Elements(c.unions) : \A m \in (DOMAIN c.models \cap MembersOf(u)) \ {u.base} : MemberSupported(c, u, m)

----------------------------------------------------------------------------

VARIABLES crate,           \* the code model
          bodies,          \* bodies of methods whose format is to be collected
          todo,            \* types that are to get a format, with it
          formats,         \* bodyFormatForModels
          modules,         \* modules that are to be emitted
          fields,          \* fields of the current module that are to be emitted
          attrs,           \* the serde attribute of every emitted field
          serdeHelpers,    \* the field that each helper was made for
          xmlListWrappers, \* likewise for each wrapper of a list
          emitted,         \* both, for every module that is complete
          pc,
          message,         \* who sends which model, of which union, and what is given
          wire,            \* what is sent
          read             \* what the emitted code makes of it

emission == <<bodies, todo, formats, modules, fields, attrs, serdeHelpers, xmlListWrappers, emitted>>
exchange == <<message, wire, read>>
vars == <<crate, emission, pc, exchange>>

Empty == [n \in {} |-> {}]

\* A map in which a key gets a value.
With(map, key, value) == [k \in DOMAIN map \cup {key} |-> IF k = key THEN value ELSE map[k]]

NoUnion == [name |-> "", module |-> 0, kind |-> "", tag |-> "", members |-> Empty, base |-> ""]

NoMessage == [by |-> "", model |-> "", union |-> NoUnion, given |-> {}, values |-> Empty, empty |-> FALSE]
NoWire    == [tags |-> <<>>, entries |-> {}]
NoRead    == [as |-> "", fields |-> Empty, variants |-> Empty]

Init == /\ crate \in Crates
        /\ bodies = crate.bodies /\ todo = <<>> /\ formats = Empty
        /\ modules = crate.modules /\ fields = <<>> /\ attrs = Empty
        /\ serdeHelpers = Empty /\ xmlListWrappers = Empty /\ emitted = <<>>
        /\ pc = "formats"
        /\ message = NoMessage /\ wire = NoWire /\ read = NoRead

Model(m) == crate.models[m]

Fields(m) == ModelFields(Model(m))

Fail == /\ pc' = "failed"
        /\ UNCHANGED <<crate, emission, exchange>>

----------------------------------------------------------------------------
(* Context: the formats of the bodies, and of the models in them. *)

TakeBody == /\ pc = "formats" /\ todo = <<>> /\ bodies # <<>>
            /\ todo' = Collected(Head(bodies)) /\ bodies' = Tail(bodies)
            /\ UNCHANGED <<crate, formats, modules, fields, attrs, serdeHelpers, xmlListWrappers, emitted, pc, exchange>>

\* The format of the body that is being collected.
Format == crate.bodies[Len(crate.bodies) - Len(bodies)].format

Known(m) == m \in DOMAIN formats

\* recursiveAddBodyFormat: a model that is known in another format is an error.
AddBodyFormat_TopOnly ==
    /\ pc = "formats" /\ todo # <<>>
    /\ LET leaf == UnwrapType(Head(todo))
           m    == leaf.of[1]
       IN IF leaf.kind # "model" \/ (Known(m) /\ formats[m] = Format)
          THEN todo' = Tail(todo) /\ UNCHANGED formats
          ELSE /\ ~Known(m)
               /\ formats' = With(formats, m, Format)
               /\ todo' = Tail(todo)
    /\ UNCHANGED <<crate, bodies, modules, fields, attrs, serdeHelpers, xmlListWrappers, emitted, pc, exchange>>

AddBodyFormat ==
    /\ pc = "formats" /\ todo # <<>>
    /\ LET leaf == UnwrapType(Head(todo))
           m    == leaf.of[1]
       IN IF leaf.kind # "model" \/ (Known(m) /\ formats[m] = Format)
          THEN todo' = Tail(todo) /\ UNCHANGED formats
          ELSE /\ ~Known(m)
               /\ formats' = With(formats, m, Format)
               /\ todo' = [i \in DOMAIN Fields(m) |-> Fields(m)[i].type] \o Tail(todo)
    /\ UNCHANGED <<crate, bodies, modules, fields, attrs, serdeHelpers, xmlListWrappers, emitted, pc, exchange>>

ConflictingFormats ==
    /\ pc = "formats" /\ todo # <<>>
    /\ LET leaf == UnwrapType(Head(todo))
       IN leaf.kind = "model" /\ Known(leaf.of[1]) /\ formats[leaf.of[1]] # Format
    /\ Fail

FormatsDone == /\ pc = "formats" /\ todo = <<>> /\ bodies = <<>>
               /\ pc' = "modules"
               /\ UNCHANGED <<crate, emission, exchange>>

\* getModelBodyFormat.
BodyFormat(m) == IF Known(m) THEN formats[m] ELSE "json"

----------------------------------------------------------------------------
(* emitModels, module by module. *)

ModuleOf(m) == CHOOSE i \in DOMAIN crate.modules : Contains(crate.modules[i], m)

HasXmlAddlProps(m) == BodyFormat(m) = "xml" /\ Model(m).additional

\* The discriminator is no field of a subtype: serde writes it as the tag.
FieldsOf(m) ==
    FlattenSeq([i \in DOMAIN Fields(m) |->
                  IF Fields(m)[i].name = Model(m).discriminator THEN <<>> ELSE <<<<m, Fields(m)[i]>>>>])

\* A subtype whose module has no union that it is a member of.
MemberMissing(m) == Model(m).discriminator # "" /\ ~Model(m).base /\ Holding(crate, ModuleOf(m), m) = {}

\* Its tag is looked for unless the description names it in XML.
TagMissing(m) == MemberMissing(m) /\ (HasXmlAddlProps(m) \/ Model(m).xmlName = "")

EmitModels_KeepsHelpers ==
    /\ pc = "modules" /\ modules # <<>> /\ Head(modules) # <<>> /\ ~(\E m \in Elements(Head(modules)) : TagMissing(m))
    /\ fields' = FlattenSeq([i \in DOMAIN Head(modules) |-> FieldsOf(Head(modules)[i])])
    /\ pc' = "fields"
    /\ UNCHANGED <<crate, bodies, todo, formats, modules, attrs, serdeHelpers, xmlListWrappers, emitted, exchange>>

\* The helpers of the module before are forgotten.
EmitModels ==
    /\ pc = "modules" /\ modules # <<>> /\ Head(modules) # <<>> /\ ~(\E m \in Elements(Head(modules)) : TagMissing(m))
    /\ fields' = FlattenSeq([i \in DOMAIN Head(modules) |-> FieldsOf(Head(modules)[i])])
    /\ serdeHelpers' = Empty /\ xmlListWrappers' = Empty
    /\ pc' = "fields"
    /\ UNCHANGED <<crate, bodies, todo, formats, modules, attrs, emitted, exchange>>

NoUnionMember == /\ pc = "modules" /\ modules # <<>> /\ \E m \in Elements(Head(modules)) : TagMissing(m)
                 /\ Fail

\* A module without models gets no files, and forgets nothing.
NoModels ==
    /\ pc = "modules" /\ modules # <<>> /\ Head(modules) = <<>>
    /\ emitted' = Append(emitted, [serde |-> Empty, xml |-> Empty])
    /\ modules' = Tail(modules)
    /\ UNCHANGED <<crate, bodies, todo, formats, fields, attrs, serdeHelpers, xmlListWrappers, pc, exchange>>

\* The first field that needs a helper makes it.
MakeOnce(helpers, names, f) ==
    [n \in DOMAIN helpers \cup names |-> IF n \in DOMAIN helpers THEN helpers[n] ELSE f]

LiteralInCollection(f) == IsLiteral(f.type.leaf) /\ ~Direct(f.type)

EmitField ==
    /\ pc = "fields" /\ fields # <<>>
    /\ LET m      == Head(fields)[1]
           f      == Head(fields)[2]
           params == SerdeParams(f, BodyFormat(m), Model(m).visible)
       IN /\ ~LiteralInCollection(f)
          /\ attrs' = With(attrs, <<m, f.name>>, IF HasXmlAddlProps(m) THEN {} ELSE params)
          /\ serdeHelpers' = MakeOnce(serdeHelpers, NamedIn(params, "models_serde"), f)
          /\ xmlListWrappers' = MakeOnce(xmlListWrappers, NamedIn(params, "xml_helpers"), f)
    /\ fields' = Tail(fields)
    /\ UNCHANGED <<crate, bodies, todo, formats, modules, emitted, pc, exchange>>

UnexpectedKind == /\ pc = "fields" /\ fields # <<>> /\ LiteralInCollection(Head(fields)[2])
                  /\ Fail

\* emitModelsSerde and emitXMLListWrappers.
EmitHelpers ==
    /\ pc = "fields" /\ fields = <<>>
    /\ emitted' = Append(emitted, [serde |-> serdeHelpers, xml |-> xmlListWrappers])
    /\ modules' = Tail(modules)
    /\ pc' = "modules"
    /\ UNCHANGED <<crate, bodies, todo, formats, fields, attrs, serdeHelpers, xmlListWrappers, exchange>>

ModelsDone == /\ pc = "modules" /\ modules = <<>>
              /\ pc' = "ready"
              /\ UNCHANGED <<crate, emission, exchange>>

----------------------------------------------------------------------------
(* What serde writes by the attributes. *)

Params(m, f) == attrs[<<m, f.name>>]

\* "with" stands for both directions.
PathOf(params, key) ==
    LET named == {p \in params : p.key \in {key, "with"}}
    IN IF named = {} THEN <<"derive">> ELSE (CHOOSE p \in named : TRUE).path

SerPath(m, f) == PathOf(Params(m, f), "serialize_with")
DePath(m, f)  == PathOf(Params(m, f), "deserialize_with")

Helpers(m) == emitted[ModuleOf(m)]

\* The field whose helper a path leads to.
MadeFor(m, path) == IF path[1] = "xml_helpers" THEN Helpers(m).xml[Tail(path)] ELSE Helpers(m).serde[Tail(path)]

Derived(leaf) == CASE leaf.kind = "int"     -> "number"
                   [] leaf.kind = "decimal" -> "string"
                   [] leaf.kind \in {"encodedBytes", "offsetDateTime"} -> "raw"
                   [] leaf.kind \in {"literal", "enum", "untagged"} -> "given"
                   [] OTHER -> leaf.kind

\* The encoding that the function of a path reads and writes.
Encoding(m, path, f) ==
    CASE path[1] = "as_string"        -> "string"
      [] path[1] = "float"            -> "number"
      [] path[1] \in {"base64", "time"} -> path[2]
      [] path[1] = "models_serde"     -> MadeFor(m, path).type.leaf.enc
      [] OTHER                        -> Derived(f.type.leaf)

Entry(key, mark, list, enc, of) == [key |-> key, mark |-> mark, list |-> list, enc |-> enc, of |-> of]

Rename(m, f) == LET r == {p \in Params(m, f) : p.key = "rename"}
                IN IF r = {} THEN <<f.name>> ELSE (CHOOSE p \in r : TRUE).path

Key(m, f) == IF HasXmlAddlProps(m) THEN f.serde
             ELSE IF Rename(m, f) = <<"$text">> THEN "" ELSE Last(Rename(m, f))

Mark(m, f) == IF HasXmlAddlProps(m) THEN (IF f.xmlKind = "attribute" THEN "@" ELSE "")
              ELSE IF Head(Rename(m, f)) \in {"@", "$text"} THEN Head(Rename(m, f)) ELSE ""

ListOf(m, f, path) ==
    IF path[1] = "xml_helpers" THEN ItemName(MadeFor(m, path).type)
    ELSE IF ~Contains(f.type.wraps, "Vec") THEN ""
    ELSE IF BodyFormat(m) = "xml" THEN "each" ELSE "array"

List(m, f) == ListOf(m, f, SerPath(m, f))

Has(m, f, key) == \E p \in Params(m, f) : p.key = key

Enum(leaf) == crate.enums[leaf.of[1]]

\* An enum is read and written like an untagged union of it alone.
Variants(leaf) == IF leaf.kind = "enum" THEN <<[wraps |-> <<>>, leaf |-> leaf]>> ELSE crate.untagged[leaf.of[1]]

\* The values that a type describes.
ValuesOf(t) ==
    CASE Outer(t) = "enum" ->
           {<<Enum(t.leaf).kind, text>> : text \in {v.wire : v \in ToSet(Enum(t.leaf).values)}
                                                  \cup IF Enum(t.leaf).fixed THEN {} ELSE {Other}}
      [] Outer(t) = "boolean" -> {<<"boolean", "">>}
      [] Outer(t) = "int"     -> {<<"number", "1">>}
      [] Outer(t) = "float"   -> {<<"number", "1">>, <<"number", "1.5">>}
      [] Outer(t) = "String"  -> (UNION {{<<"text", v.wire>> : v \in ToSet(crate.enums[n].values)} : n \in DOMAIN crate.enums})
                                   \cup {<<"text", Other>>}
      [] Outer(t) = "Vec"     -> {<<"array", "">>}
      [] OTHER                -> {<<"object", t.leaf.of[1]>>}

Narrowest(variants, value) ==
    LET fitting == {t \in ToSet(variants) : value \in ValuesOf(t)}
    IN {t \in fitting : \A s \in fitting : ~(ValuesOf(s) \subseteq ValuesOf(t) /\ ValuesOf(s) # ValuesOf(t))}

\* The variant of a Rust enum that stands for a described value.
VariantFor(e, text) ==
    LET at == {i \in DOMAIN e.values : e.values[i].wire = text}
    IN IF at = {} THEN UnknownValue(text) ELSE RustEnum(e).variants[Min(at)]

\* The emitted code writes a variant of an enum in the type of the Rust enum.
WrittenEnum(leaf, value) == <<RustEnum(Enum(leaf)).type, ToWire(VariantFor(Enum(leaf), value[2]))>>

WrittenValue(leaf, value) ==
    LET t == CHOOSE v \in Narrowest(Variants(leaf), value) : TRUE
    IN IF Outer(t) = "enum" THEN WrittenEnum(t.leaf, value) ELSE value

HasValue(t) == t.leaf.kind \in {"enum", "untagged"}

\* The helper of a literal writes its own value, whatever is given; that of
\* an optional one does so when something is given.
WrittenField(m, f, given, values) ==
    LET path    == SerPath(m, f)
        literal == path[1] = "models_serde" /\ IsLiteral(MadeFor(m, path).type.leaf)
        of      == IF literal THEN MadeFor(m, path).type.leaf.of
                   ELSE IF f.name \in DOMAIN values THEN WrittenValue(f.type.leaf, values[f.name])
                   ELSE <<>>
        skipped == \/ Has(m, f, "skip_serializing")
                   \/ ~given /\ (Has(m, f, "skip_if_none") \/ HasXmlAddlProps(m))
    IN IF skipped THEN {}
       ELSE IF ~given /\ ~(literal /\ ~MadeFor(m, path).optional)
       THEN {Entry(Key(m, f), Mark(m, f), "", "null", <<>>)}
       ELSE {Entry(Key(m, f), Mark(m, f), List(m, f), Encoding(m, path, f), of)}

Emitted(m) == EmittedFields(Model(m))

\* Additional properties are flattened, or written one by one.
Additional(m, given) ==
    IF Model(m).additional /\ "additional_properties" \in given THEN {Entry("*", "", "", "any", <<>>)} ELSE {}

WrittenModel(m, given, values) ==
    (UNION {WrittenField(m, f, f.name \in given, values) : f \in Emitted(m)}) \cup Additional(m, given)

Tag(key, value) == [key |-> key, value |-> value]

Discriminator(m) == CHOOSE f \in Elements(Fields(m)) : f.name = Model(m).discriminator

ValueOf(u, m) == CHOOSE v \in DOMAIN u.members : u.members[v] = m

\* The tag of a subtype, of which the last union of its module decides.
StructTag(m) ==
    LET last == Max(Holding(crate, ModuleOf(m), m))
    IN IF Model(m).discriminator = "" \/ Model(m).base \/ Model(m).xmlName # "" THEN <<>>
       ELSE <<Tag(Discriminator(m).serde, ValueOf(crate.unions[last], m))>>

WrittenTags_Twice(u, m) == <<Tag(u.tag, ValueOf(u, m))>> \o StructTag(m)

\* emitUnions and emitUnionSerde: an extensible union leaves the tag to its
\* members, the others write it themselves.
WrittenTags(u, m) ==
    (IF u.kind = "base" THEN <<>> ELSE <<Tag(u.tag, ValueOf(u, m))>>) \o StructTag(m)

Unions == Elements(crate.unions)

Bases == {u.base : u \in {v \in Unions : v.kind = "base"}}

Written(u, m, given, values) ==
    [tags |-> IF u = NoUnion \/ m = u.base THEN <<>> ELSE WrittenTags(u, m),
     entries |-> WrittenModel(m, given, values)]

----------------------------------------------------------------------------
(* What the description asks for. *)

DescribedField(p, format) ==
    LET leaf == p.type.leaf
        xml  == format = "xml"
        text == xml /\ p.xml = "unwrapped" /\ p.type.wraps = <<>>
    IN Entry(IF text THEN "" ELSE IF xml /\ p.xmlName # "" THEN p.xmlName ELSE p.wire,
             IF text THEN "$text" ELSE IF xml /\ p.xml = "attribute" THEN "@" ELSE "",
             IF ~Contains(p.type.wraps, "Vec") THEN ""
             ELSE IF ~xml THEN "array"
             ELSE IF p.xml = "unwrapped" THEN "each" ELSE ItemName(p.type),
             IF leaf.enc # "" THEN leaf.enc
             ELSE IF leaf.kind \in {"int", "decimal"} THEN "number"
             ELSE IF HasValue(p.type) THEN "given" ELSE leaf.kind,
             leaf.of)

\* A literal has its own value, an enum or an untagged union the one that is
\* given, and other fields have only that they are given.
Plain(e, p, values) ==
    IF IsLiteral(p.type.leaf) THEN e
    ELSE [e EXCEPT !.of = IF p.name \in DOMAIN values THEN values[p.name] ELSE <<>>]

Props(m) == {p \in Elements(Model(m).props) : p.name # Model(m).discriminator \/ Model(m).base}

Described(m, given, values, format) ==
    {Plain(DescribedField(p, format), p, values) : p \in {q \in Props(m) : q.name \in given}} \cup Additional(m, given)

DescribedTags(u, m) ==
    IF u = NoUnion \/ m = u.base THEN <<>>
    ELSE <<Tag(IF Model(m).discriminator = "" THEN u.tag ELSE Discriminator(m).serde, ValueOf(u, m))>>

Asked(format) == AskedOf(crate, format)

AskedFormat(m) == AskedFormatOf(crate, m)

----------------------------------------------------------------------------
(* The descriptions whose messages the emitted code can read. *)

Place(p, format) == LET e == DescribedField(p, format) IN <<e.key, e.mark>>

\* A field that need not be sent has a default, or is an Option that no
\* function reads.
OptionalSupported(p) ==
    LET leaf == p.type.leaf
    IN /\ ~p.emptyAsNull /\ ~EncodeAsString(leaf) /\ ~(leaf.kind = "decimal" /\ leaf.enc # "string")
       /\ p.deserializeWith # "" => HasHelper(leaf) /\ ~IsLiteral(leaf)

\* Values have names, and those that are sent alike one name, or are one.
EnumSupported(e) ==
    /\ e.merged => e.fixed
    /\ \A v \in ToSet(e.values) : FixUpEnumValueName(v) # <<>>
    /\ \A i, j \in DOMAIN e.values : e.values[i].wire = e.values[j].wire =>
          IF e.merged THEN FixUpEnumValueName(e.values[i]) = FixUpEnumValueName(e.values[j]) ELSE i = j

\* The kinds of the variants tell them apart, also by their order.
UntaggedSupported(c, variants) ==
    LET outers == {Outer(t) : t \in ToSet(variants)}
    IN /\ outers \subseteq {"boolean", "int", "float", "enum", "String", "Vec", "model"}
       /\ \A i, j \in DOMAIN variants : Outer(variants[i]) = Outer(variants[j]) => i = j
       /\ \A t \in ToSet(variants) : Outer(t) = "enum" =>
             IF c.enums[t.leaf.of[1]].kind = "text" THEN c.enums[t.leaf.of[1]].fixed \/ "String" \notin outers
             ELSE "float" \notin outers /\ (c.enums[t.leaf.of[1]].fixed \/ "int" \notin outers)

\* Only an extensible union has a base, and its members bear its tag.
UnionSupported(c, u) ==
    /\ u.kind # "base" => u.base \notin DOMAIN c.models
    /\ \A m \in (DOMAIN c.models \cap MembersOf(u)) \ {u.base} :
          /\ ~c.models[m].base
          /\ c.models[m].discriminator # "" =>
                \E f \in Elements(ModelFields(c.models[m])) : f.name = c.models[m].discriminator /\ f.serde = u.tag

\* What an empty string stands for is decided by the field alone, and a base is
\* read without attributes.
ReadingOf(p, model, byHand) ==
    /\ "*" \notin {p.wire, p.xmlName}
    /\ p.optional => OptionalSupported(p) /\ (p.pageItems => model.visible /\ ~byHand)
    /\ p.emptyAsNull =>
          p.type.wraps = <<>> /\ ~HasHelper(p.type.leaf) /\ p.deserializeWith = "" /\ ~model.base /\ ~byHand
    /\ model.base => p.wire = p.name /\ p.type.leaf.enc = "" /\ p.type.leaf.kind # "decimal"

\* Properties have places of their own.
ReadingSupported(c) ==
    /\ \A m \in DOMAIN c.models :
          LET model  == c.models[m]
              format == AskedFormatOf(c, m)
          IN /\ \A p, q \in Elements(model.props) : Place(p, format) = Place(q, format) => p = q
             /\ \A p \in Elements(model.props) : ReadingOf(p, model, format = "xml" /\ model.additional)
             /\ model.base <=> \E u \in Elements(c.unions) : u.kind = "base" /\ u.base = m
    /\ \A n \in DOMAIN c.enums : EnumSupported(c.enums[n])
    /\ \A n \in DOMAIN c.untagged : UntaggedSupported(c, c.untagged[n])
    /\ \A u \in Elements(c.unions) : UnionSupported(c, u)

----------------------------------------------------------------------------
(* Messages. *)

Names(m) == {p.name : p \in Props(m)} \cup IF Model(m).additional THEN {"additional_properties"} ELSE {}

Carriers(m) == LET us == {u \in Unions : m \in MembersOf(u) \cup {u.base}} IN IF us = {} THEN {NoUnion} ELSE us

\* What has to be there: a caller leaves out what it may not set, or need not.
Required(m, by) ==
    {p.name : p \in {q \in Props(m) : ~q.optional /\ (by = "client" => ~q.readOnly /\ ~IsLiteral(q.type.leaf))}}

Exchanged(m, by) == Model(m).usage \cap (IF by = "client" THEN {"input", "spread"} ELSE {"output"}) # {}

\* The values that may be given for some properties.
Givings(ps) ==
    LET OfName(n) == UNION {UNION {ValuesOf(t) : t \in ToSet(Variants(p.type.leaf))} : p \in {q \in ps : q.name = n}}
        names     == {p.name : p \in ps}
    IN {g \in [names -> UNION {OfName(n) : n \in names}] : \A n \in names : g[n] \in OfName(n)}

Message(by) == \E m \in {n \in DOMAIN crate.models : Exchanged(n, by)} : \E given \in SUBSET Names(m), empty \in BOOLEAN, u \in Carriers(m) :
                  /\ Required(m, by) \subseteq given
                  /\ empty => by = "service" /\ \E p \in Props(m) : p.emptyAsNull /\ p.name \in given
                  /\ \E values \in Givings({p \in Props(m) : p.name \in given /\ HasValue(p.type)}) :
                        message' = [by |-> by, model |-> m, union |-> u, given |-> given, values |-> values, empty |-> empty]

Send == /\ pc = "ready"
        /\ Message("client")
        /\ wire' = Written(message'.union, message'.model, message'.given, message'.values)
        /\ pc' = "sent"
        /\ UNCHANGED <<crate, emission, read>>

\* A field that a client leaves out, and one that it need not give.
SentAsDescribed(m, given) ==
    {p.name : p \in {q \in Props(m) : ~q.readOnly /\ (q.name \in given \/ (IsLiteral(q.type.leaf) /\ ~q.optional))}}
      \cup (given \cap {"additional_properties"})

\* A service may send an empty string for a value that is not there.
Emptied(e, p) == IF message'.empty /\ p.emptyAsNull THEN [e EXCEPT !.enc = "empty"] ELSE e

Answer ==
    /\ pc = "ready"
    /\ Message("service")
    /\ LET m == message'.model
       IN wire' = [tags |-> DescribedTags(message'.union, m),
                   entries |-> {Emptied(Plain(DescribedField(p, AskedFormat(m)), p, message'.values), p) :
                                   p \in {q \in Props(m) : q.name \in message'.given}} \cup Additional(m, message'.given)]
    /\ pc' = "answered"
    /\ UNCHANGED <<crate, emission, read>>

ReadList(m, f) == ListOf(m, f, DePath(m, f))

\* serde reads a missing field as its default, as None if it is an Option that
\* no function reads, and fails otherwise.
MissingField(m, f) == IF Has(m, f, "default") THEN "none"
                      ELSE IF DePath(m, f)[1] = "derive" /\ Outer(f.type) = "option" THEN "none" ELSE "error"

\* The derived code of an untagged union tries its variants in their order.
Accepts(t, value) ==
    CASE Outer(t) = "enum" -> /\ value[1] = RustEnum(Enum(t.leaf)).type
                              /\ FromWire(RustEnum(Enum(t.leaf)), value[2]) # NoVariant
      [] Outer(t) = "model" -> value[1] = "object"
      [] OTHER -> value \in ValuesOf(t)

NoType == Type(<<>>, "", "", <<>>)

\* What a value is read as: a variant of an untagged union, and of an enum.
ReadValue(leaf, value) ==
    LET variants  == BuildUntaggedUnion(Variants(leaf))
        accepting == {k \in DOMAIN variants : Accepts(variants[k], value)}
        first     == variants[Min(accepting)]
    IN IF accepting = {} THEN [type |-> NoType, variant |-> NoVariant]
       ELSE [type |-> first,
             variant |-> IF Outer(first) = "enum" THEN FromWire(RustEnum(Enum(first.leaf)), value[2]) ELSE NoVariant]

Understood(m, f, e) ==
    LET path == DePath(m, f)
    IN IF path[1] = "custom" THEN "value"
       ELSE IF e.enc = "empty" THEN (IF path[1] = "empty_as_null" THEN "none" ELSE "error")
       ELSE IF /\ e.list = ReadList(m, f)
               /\ ~HasValue(f.type) \/ ReadValue(f.type.leaf, e.of).type # NoType
               /\ Encoding(m, path, f) \in {e.enc, "given"}
       THEN "value" ELSE "error"

ReadField(m, f, entries) ==
    LET mine == {e \in entries : e.key = Key(m, f) /\ e.mark = Mark(m, f)}
    IN IF mine = {} THEN MissingField(m, f) ELSE Understood(m, f, CHOOSE e \in mine : TRUE)

ReadFields(m, entries) ==
    LET names == {f.name : f \in Emitted(m)}
    IN [n \in names \cup (IF Model(m).additional THEN {"additional_properties"} ELSE {}) |->
          IF n \in names THEN ReadField(m, CHOOSE f \in Emitted(m) : f.name = n, entries)
          ELSE IF \E e \in entries : e.key = "*" THEN "value" ELSE "none"]

ReadVariants(m, entries) ==
    LET mine(f) == {e \in entries : e.key = Key(m, f) /\ e.mark = Mark(m, f)}
        with == {f \in Emitted(m) : HasValue(f.type) /\ mine(f) # {}}
    IN [n \in {f.name : f \in with} |->
          LET f == CHOOSE g \in with : g.name = n
          IN ReadValue(f.type.leaf, (CHOOSE e \in mine(f) : TRUE).of)]

\* The fields of an unknown variant have no attributes.
ReadUnknownField(f, entries) ==
    LET mine == {e \in entries : e.key = f.name}
    IN IF mine = {} THEN "none"
       ELSE IF \E e \in mine : e.enc = Derived(f.type.leaf) THEN "value" ELSE "error"

ReadUnknown(m, entries) ==
    [n \in {f.name : f \in Emitted(m)} |-> ReadUnknownField(CHOOSE f \in Emitted(m) : f.name = n, entries)]

Whole(outcomes) == \A n \in DOMAIN outcomes : outcomes[n] # "error"

\* The member that the tag names or, of an extensible union, the unknown
\* variant, also when the member cannot be read.
ReadAs(u, entries, tags) ==
    LET named == {v \in DOMAIN u.members : Contains(tags, Tag(u.tag, v))}
        tried == {u.members[v] : v \in named}
    IN IF \E m \in tried : Whole(ReadFields(m, entries)) THEN CHOOSE m \in tried : Whole(ReadFields(m, entries))
       ELSE IF u.kind = "base" /\ Whole(ReadUnknown(u.base, entries)) THEN u.base ELSE "error"

Read ==
    /\ pc = "answered"
    /\ LET u  == message.union
           m  == message.model
           as == IF u # NoUnion THEN ReadAs(u, wire.entries, wire.tags)
                 ELSE IF Whole(ReadFields(m, wire.entries)) THEN m ELSE "error"
       IN read' = [as |-> as,
                   fields |-> CASE as = "error" -> Empty
                                [] as \in Bases -> ReadUnknown(as, wire.entries)
                                [] OTHER -> ReadFields(as, wire.entries),
                   variants |-> IF as \in {"error"} \cup Bases THEN Empty ELSE ReadVariants(as, wire.entries)]
    /\ pc' = "read"
    /\ UNCHANGED <<crate, emission, message, wire>>

Finished == /\ pc \in {"failed", "sent", "read"}
            /\ UNCHANGED vars

Next == \/ TakeBody \/ AddBodyFormat \/ ConflictingFormats \/ FormatsDone
        \/ EmitModels \/ NoUnionMember \/ NoModels \/ EmitField \/ UnexpectedKind \/ EmitHelpers \/ ModelsDone
        \/ Send \/ Answer \/ Read
        \/ Finished

Spec == Init /\ [][Next]_vars

----------------------------------------------------------------------------
(* Properties. *)

\* Every model that a body holds has the format of that body when it is emitted,
\* the status of a poller as well, and only a model in bodies of both formats, a
\* literal in a collection or a subtype apart from its union makes the emitter
\* give up (Context.recursivePopulate, emitModelDefinitions): of crates in which an
\* XML model is in the body of a parameter, a response or a page too, and is not
\* there through a Box or a union alone.
FormatsReach ==
    /\ pc = "ready" => \A m \in DOMAIN crate.models :
                          BodyFormat(m) = AskedFormat(m) /\ ~(m \in Asked("xml") /\ m \in Asked("json"))
    /\ pc = "failed" => \/ Asked("xml") \cap Asked("json") # {}
                        \/ \E m \in DOMAIN crate.models : MemberMissing(m) \/ \E f \in Emitted(m) : LiteralInCollection(f)

\* A function accepts the type of a field.
Fits(m, f, path, reads) ==
    LET helpers == IF path[1] = "xml_helpers" THEN Helpers(m).xml ELSE Helpers(m).serde
        simple  == f.type.wraps \in {<<>>, <<"option">>}
        options == IF f.type.wraps = <<>> THEN <<>> ELSE <<"option">>
    IN CASE path[1] = "as_string"        -> simple /\ f.type.leaf.kind = "int"
         [] path[1] = "float"            -> simple /\ f.type.leaf.kind = "decimal" /\ Tail(path) = options
         [] path[1] \in {"base64", "time"} -> simple /\ path[2] # "rfc3339-fixed-width" /\ Tail(Tail(path)) = options
         [] path[1] = "empty_as_null"    -> Outer(f.type) = "option"
         [] path[1] \in {"models_serde", "xml_helpers"} ->
              /\ Tail(path) \in DOMAIN helpers /\ (IsLiteral(f.type.leaf) => LegalName(f.type.leaf))
              /\ LET made == helpers[Tail(path)]
                 IN /\ made.type.wraps = f.type.wraps /\ made.type.leaf.kind = f.type.leaf.kind
                    /\ path[1] = "models_serde" /\ reads => ~Custom(made)
                    /\ path[1] = "models_serde" /\ ~IsLiteral(made.type.leaf)
                         => SerializeCompiles(made.type) /\ (Custom(made) \/ DeserializeCompiles(made.type))
         [] OTHER -> TRUE

\* Every function that the attribute of a field names exists in the module of
\* the model, has a name of Rust, compiles and takes the type of the field, no
\* two options of an attribute name a function for the same direction, and a
\* module holds only functions that its own models use (addSerDeHelper,
\* getXMLListWrapper and the maps that emitModels clears); the variants of an
\* enum have names of their own.
HelpersFit ==
    pc = "ready" =>
        /\ \A m \in DOMAIN crate.models : \A f \in Emitted(m) :
              /\ Fits(m, f, SerPath(m, f), FALSE) /\ Fits(m, f, DePath(m, f), TRUE)
              /\ \A key \in {"serialize_with", "deserialize_with"} :
                    Cardinality({p \in Params(m, f) : p.key \in {key, "with"}}) <= 1
        /\ \A i \in DOMAIN emitted :
              LET used == UNION {UNION {Params(m, f) : f \in Emitted(m)} : m \in Elements(crate.modules[i])}
              IN /\ DOMAIN emitted[i].serde = NamedIn(used, "models_serde")
                 /\ DOMAIN emitted[i].xml = NamedIn(used, "xml_helpers")
        /\ \A n \in DOMAIN crate.enums : EnumCompiles(RustEnum(crate.enums[n]))

\* What a client sends is what the description says: every field that it
\* gives and may set under its wire name, in its place, with its encoding,
\* literals and enums with their value, and the tag of a union once.
SendsAsDescribed ==
    pc = "sent" =>
        /\ {e \in wire.entries : e.enc # "null"}
             = Described(message.model, SentAsDescribed(message.model, message.given), message.values, AskedFormat(message.model))
        /\ wire.tags = DescribedTags(message.union, message.model)

\* What a service sends by the description, with any of the fields that it need
\* not send left out, is read as the model it is, and every field has the value
\* that was sent; an empty string is no value where the description says so,
\* and an unknown member of an extensible union is read as its base.  A value of
\* an untagged union is read as the narrowest variant that describes it, one of
\* an enum as the variant that was made of it.
ReadsWhatIsSent ==
    pc = "read" =>
        /\ read.as = message.model
        /\ \A p \in Props(message.model) :
              p.name \in message.given \cap DOMAIN read.fields
                => read.fields[p.name] = IF message.empty /\ p.emptyAsNull THEN "none" ELSE "value"
        /\ \A p \in {q \in Props(message.model) : q.name \in DOMAIN read.variants} :
              LET value == message.values[p.name]
                  as    == read.variants[p.name]
              IN /\ as.type \in Narrowest(Variants(p.type.leaf), value)
                 /\ Outer(as.type) = "enum" => as.variant = VariantFor(Enum(as.type.leaf), value[2])
=============================================================================
