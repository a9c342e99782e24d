----------------------------- MODULE EnumValues ------------------------------
(***************************************************************************)
(* Enums, unions of enums and untagged unions: the variants that the       *)
(* adapter makes of them, and the conversions that enums.ts and serde's    *)
(* derived code emit for these.                                            *)
(*                                                                         *)
(* The name of a value is a sequence of pieces, words or marks.  A value   *)
(* on the wire is a pair of a kind and what it is.  How digits are set     *)
(* apart in names is left out.                                             *)
(*                                                                         *)
(* A definition Name_Fault is Name with a plausible mistake in the code;   *)
(* no specification uses it: the properties must fail with it.             *)
(***************************************************************************)
EXTENDS SerdeFields, FiniteSetsExt

\* What may be sent beside the values that an enum describes.
Other == "other"

Variant(name, group, id, wire) == [name |-> name, group |-> group, id |-> id, wire |-> wire]

\* fixUpEnumValueName joins the words.
FixUpEnumValueName(value) == SelectSeq(value.name, LAMBDA piece : piece \notin Marks)

\* The values of an enum that get the name of the one at i.
SameName(e, i) == {j \in DOMAIN e.values : FixUpEnumValueName(e.values[j]) = FixUpEnumValueName(e.values[i])}

Collides(e, i) == Cardinality(SameName(e, i)) > 1

\* Names that several values share are told apart by the number of the group,
\* in the order of the first values, and the place in it.
GroupOf(e, i) == Cardinality({Min(SameName(e, j)) : j \in {k \in DOMAIN e.values : Collides(e, k) /\ Min(SameName(e, k)) <= i}})

\* getEnum: one variant for each value.
GetEnum(e) ==
    [type |-> e.kind, extensible |-> ~e.fixed,
     variants |-> [i \in DOMAIN e.values |->
        LET name == FixUpEnumValueName(e.values[i])
        IN IF Collides(e, i)
           THEN Variant(name, GroupOf(e, Min(SameName(e, i))), Cardinality({j \in SameName(e, i) : j <= i}), e.values[i].wire)
           ELSE Variant(name, 0, 0, e.values[i].wire)]]

\* getMergedFlatEnum: one variant for each name, that of the first value.
GetMergedFlatEnum(e) ==
    [type |-> "text", extensible |-> FALSE,
     variants |-> [i \in DOMAIN e.values |->
        Variant(FixUpEnumValueName(e.values[i]), 0, 0, e.values[Min(SameName(e, i))].wire)]]

RustEnum(e) == IF e.merged THEN GetMergedFlatEnum(e) ELSE GetEnum(e)

UnknownValue(wire) == Variant(<<"Unknown", "Value">>, 0, 0, wire)

NoVariant == Variant(<<>>, 0, 0, "")

\* The names in the definition are distinct, UnknownValue included.
EnumCompiles(r) ==
    LET names == {[v EXCEPT !.wire = ""] : v \in ToSet(r.variants)}
    IN /\ \A u, v \in ToSet(r.variants) : u # v => [u EXCEPT !.wire = ""] # [v EXCEPT !.wire = ""]
       /\ r.extensible => UnknownValue("") \notin names

\* FromStr, or TryFrom of the number.
FromWire(r, wire) ==
    LET matching == {v \in ToSet(r.variants) : v.wire = wire}
    IN IF matching # {} THEN CHOOSE v \in matching : TRUE
       ELSE IF r.extensible THEN UnknownValue(wire) ELSE NoVariant

\* AsRef, or From for the number.
ToWire(v) == v.wire

----------------------------------------------------------------------------
(* Untagged unions. *)

UntaggedVariantOrder_AsWritten(t) == 0

\* getUntaggedVariantOrder.
UntaggedVariantOrder(t) ==
    CASE Outer(t) = "boolean" -> 0
      [] Outer(t) = "int"     -> 1
      [] Outer(t) = "float"   -> 2
      [] Outer(t) = "enum"    -> 3
      [] Outer(t) = "String"  -> 4
      [] Outer(t) = "Vec"     -> 5
      [] Outer(t) = "model"   -> 6
      [] OTHER                -> 7

\* buildUntaggedUnion: the variants in their order; the sort is stable.
BuildUntaggedUnion(variants) ==
    LET Before(i, j) == LET a == UntaggedVariantOrder(variants[i])
                            b == UntaggedVariantOrder(variants[j])
                        IN a < b \/ (a = b /\ i < j)
        Rank(i)      == Cardinality({j \in DOMAIN variants : Before(j, i)}) + 1
    IN [k \in DOMAIN variants |-> variants[CHOOSE i \in DOMAIN variants : Rank(i) = k]]
=============================================================================
