---------------------------- MODULE TypeAdapter ----------------------------
(***************************************************************************)
(* How Adapter.adaptTypes turns the TypeSpec type graph into Rust types:   *)
(* getModel, getModelField, getDiscriminatedUnion and                      *)
(* getNonDiscriminatedUnion call each other recursively, share one cache   *)
(* (Adapter.types) and decide from a stack of enclosing models which       *)
(* fields must be boxed so that the emitted structs have a finite size.    *)
(*                                                                         *)
(* The recursion of the code is made explicit: `calls` is the JavaScript   *)
(* call stack of unfinished getModel/get...Union calls and every action is *)
(* what the code does between two such calls.                              *)
(*                                                                         *)
(* A type graph has models and unions.  A reference of a model is one of   *)
(* its properties (the parents' ones included) whose type is, or is an     *)
(* array or a dictionary (`heap`) of, a model or a union; scalars, enums   *)
(* and external types play no role.  The references of a union are its     *)
(* variants; the first one of an "extensible" union (a polymorphic root    *)
(* without a fixed discriminator) is the model Unknown<Name>, made from    *)
(* the root itself.  "sealed" stands for every other discriminated union,  *)
(* "untagged" for the unions without a discriminator.                      *)
(*                                                                         *)
(* A definition Name_Fault is Name with a plausible mistake in the code;   *)
(* no specification uses it: the properties must fail with it.             *)
(***************************************************************************)
EXTENDS Naturals, Sequences, FiniteSets

CONSTANTS Models,   \* the models
          Unions,   \* the unions, polymorphic roots included
          Schemas   \* the type graphs considered

Nodes == Models \cup Unions

Ref == [to : Nodes, heap : BOOLEAN]

UnionKinds == {"extensible", "sealed", "untagged"}

\* level is used by Stratified only; roots is the order of sdkPackage.unions
\* followed by sdkPackage.models.
Schema == [refs  : [Nodes -> Seq(Ref)],
           addl  : [Models -> SUBSET Nodes],
           kind  : [Unions -> UnionKinds],
           level : [Nodes -> Nat],
           roots : Seq(Nodes)]

\* An extensible union starts with the model Unknown<Name>.
WellFormed(s) ==
    /\ s \in Schema
    /\ \A n \in Unions : s.kind[n] = "extensible" =>
          s.refs[n] # <<>> /\ s.refs[n][1].to \in Models

ASSUME SchemasAssumption == /\ Models \cap Unions = {}
                            /\ \A s \in Schemas : WellFormed(s)

VARIABLES schema,   \* the type graph, chosen once
          roots,    \* what adaptTypes has still to visit
          calls,    \* the unfinished calls, outermost first
          types,    \* what the cache Adapter.types holds
          fields,   \* the fields of each rust.Model
          pushed    \* how often a type was pushed into its module

vars == <<schema, roots, calls, types, fields, pushed>>

Refs(n)  == schema.refs[n]
Top      == calls[Len(calls)]
Pending  == Refs(Top.node)[Top.at]
Finished == Top.at = Len(Refs(Top.node)) + 1
Active   == calls # <<>>
InModel  == Active /\ Top.node \in Models
InUnion  == Active /\ Top.node \in Unions

Field(r, boxed) == [to |-> r.to, heap |-> r.heap, boxed |-> boxed, ref |-> FALSE]

\* The result of a call is in the cache; the caller moves on.
Advanced(f) == [f EXCEPT !.at = @ + 1]
Advance == calls' = [calls EXCEPT ![Len(calls)] = Advanced(@)]
Return  == calls' = SubSeq(calls, 1, Len(calls) - 1)

\* getModel on a cache miss: the model is cached and put on the stack before
\* its properties are adapted.
GetModel(m, stack) ==
    /\ m \notin types
    /\ types' = types \cup {m}
    /\ calls' = Append(calls, [node |-> m, at |-> 1, stack |-> stack \cup {m}])
    /\ UNCHANGED <<schema, roots, fields, pushed>>

\* getDiscriminatedUnion and getNonDiscriminatedUnion on a cache miss: nothing
\* is cached yet, and the stack is not handed on.
GetUnion(u) ==
    /\ u \notin types
    /\ calls' = Append(calls, [node |-> u, at |-> 1, stack |-> {}])
    /\ UNCHANGED <<schema, roots, types, fields, pushed>>

\* getType on a model or a union which is not cached.
GetType(n, stack) == \/ n \in Models /\ GetModel(n, stack)
                     \/ n \in Unions /\ GetUnion(n)

FieldNeedsBoxing_UnionsOnly(r, stack) ==
    /\ ~r.heap /\ r.to \in Unions
    /\ \E i \in DOMAIN Refs(r.to) : Refs(r.to)[i].to \in stack

FieldNeedsBoxing_IfCached(r, stack) == ~r.heap /\ r.to \in types

\* fieldNeedsBoxing: the field's model is on the stack, or the field is a
\* discriminated union one of whose members is on the stack.
FieldNeedsBoxing(r, stack) ==
    /\ ~r.heap
    /\ \/ r.to \in Models /\ r.to \in stack
       \/ /\ r.to \in Unions
          /\ schema.kind[r.to] # "untagged"
          /\ \E i \in DOMAIN Refs(r.to) :
                /\ i = 1 => schema.kind[r.to] # "extensible"
                /\ Refs(r.to)[i].to \in stack

----------------------------------------------------------------------------
Init == /\ schema \in Schemas
        /\ roots  = schema.roots
        /\ calls  = <<>>
        /\ types  = {}
        /\ fields = [m \in Models |-> <<>>]
        /\ pushed = [n \in Nodes |-> 0]

\* adaptTypes visits the next type of the package.
VisitRoot == /\ ~Active /\ roots # <<>>
             /\ GetType(Head(roots), {})

RegisterRoot_Always ==
    /\ ~Active /\ roots # <<>> /\ Head(roots) \in types
    /\ roots' = Tail(roots)
    /\ pushed' = [pushed EXCEPT ![Head(roots)] = @ + 1]
    /\ UNCHANGED <<schema, calls, types, fields>>

\* adaptTypes has the Rust type: it is pushed into its module, unless it is an
\* untagged union, which registered itself.
RegisterRoot ==
    /\ ~Active /\ roots # <<>> /\ Head(roots) \in types
    /\ roots' = Tail(roots)
    /\ pushed' = IF Head(roots) \in Unions /\ schema.kind[Head(roots)] = "untagged"
                 THEN pushed
                 ELSE [pushed EXCEPT ![Head(roots)] = @ + 1]
    /\ UNCHANGED <<schema, calls, types, fields>>

\* getModelField asks for the type of a property, with the stack.
VisitProperty == /\ InModel /\ ~Finished
                 /\ GetType(Pending.to, Top.stack)

\* getModelField has the type, decides on the box, and the field is added.
AddField ==
    /\ InModel /\ ~Finished /\ Pending.to \in types
    /\ fields' = [fields EXCEPT ![Top.node] =
                    Append(@, Field(Pending, FieldNeedsBoxing(Pending, Top.stack)))]
    /\ Advance
    /\ UNCHANGED <<schema, roots, types, pushed>>

\* After the fields, the type of the additional properties: without the stack.
VisitAddlProps == /\ InModel /\ Finished
                  /\ \E n \in schema.addl[Top.node] : GetType(n, {})

ModelReturns_Early == /\ InModel /\ Return
                      /\ UNCHANGED <<schema, roots, types, fields, pushed>>

ModelReturns == /\ InModel /\ Finished
                /\ schema.addl[Top.node] \subseteq types
                /\ Return
                /\ UNCHANGED <<schema, roots, types, fields, pushed>>

\* The variants of a union are adapted with a new stack each.
VisitVariant == /\ InUnion /\ ~Finished
                /\ GetType(Pending.to, {})

AtBase == schema.kind[Top.node] = "extensible" /\ Top.at = 1

AddVariant == /\ InUnion /\ ~Finished /\ Pending.to \in types /\ ~AtBase
              /\ Advance
              /\ UNCHANGED <<schema, roots, types, fields, pushed>>

FixUpBase_ByValue ==
    /\ InUnion /\ ~Finished /\ Pending.to \in types /\ AtBase
    /\ pushed' = [pushed EXCEPT ![Pending.to] = 1]
    /\ Advance
    /\ UNCHANGED <<schema, roots, types, fields>>

\* The model Unknown<Name> is fixed up the first time it is seen: its fields
\* become references and it is pushed into the module.
FixUpBase ==
    /\ InUnion /\ ~Finished /\ Pending.to \in types /\ AtBase
    /\ IF pushed[Pending.to] = 0
       THEN /\ fields' = [fields EXCEPT ![Pending.to] =
                            [i \in DOMAIN @ |-> [@[i] EXCEPT !.ref = TRUE]]]
            /\ pushed' = [pushed EXCEPT ![Pending.to] = 1]
       ELSE UNCHANGED <<fields, pushed>>
    /\ Advance
    /\ UNCHANGED <<schema, roots, types>>

UnionReturns_NotCached == /\ InUnion /\ Finished
                          /\ Return
                          /\ UNCHANGED <<schema, roots, types, fields, pushed>>

UnionReturns_NotPushed == /\ InUnion /\ Finished
                          /\ types' = types \cup {Top.node}
                          /\ Return
                          /\ UNCHANGED <<schema, roots, fields, pushed>>

\* Only now is the union cached; an untagged one is pushed into its module.
UnionReturns ==
    /\ InUnion /\ Finished
    /\ types' = types \cup {Top.node}
    /\ pushed' = IF schema.kind[Top.node] = "untagged"
                 THEN [pushed EXCEPT ![Top.node] = @ + 1]
                 ELSE pushed
    /\ Return
    /\ UNCHANGED <<schema, roots, fields>>

Done == ~Active /\ roots = <<>>

Terminated == Done /\ UNCHANGED vars

Next == \/ VisitRoot \/ RegisterRoot
        \/ VisitProperty \/ AddField \/ VisitAddlProps \/ ModelReturns
        \/ VisitVariant \/ AddVariant \/ FixUpBase \/ UnionReturns
        \/ Terminated

Spec == Init /\ [][Next]_vars

\* adaptTypes runs to its end without waiting for anything.
FairSpec == Spec /\ WF_vars(Next)

----------------------------------------------------------------------------
Frame    == [node : Nodes, at : Nat \ {0}, stack : SUBSET Models]
FieldRec == [to : Nodes, heap : BOOLEAN, boxed : BOOLEAN, ref : BOOLEAN]

\* The types of the variables; the frame of a call never runs past the end of
\* its references.
TypeOK ==
    /\ WellFormed(schema)
    /\ roots \in Seq(Nodes)
    /\ calls \in Seq(Frame)
    /\ \A k \in 1..Len(calls) : calls[k].at <= Len(Refs(calls[k].node)) + 1
    /\ types \in SUBSET Nodes
    /\ fields \in [Models -> Seq(FieldRec)]
    /\ pushed \in [Nodes -> Nat]

\* What a value of the Rust type holds inline: the fields that are neither
\* boxed nor behind a Vec or HashMap, or the payloads of an enum's variants.
\* (The references of Unknown<Name> do not help: the union repeats its fields
\* by value.)
ByValue(n) ==
    IF n \in Models
    THEN {f.to : f \in {fields[n][i] : i \in {j \in DOMAIN fields[n] :
                            ~fields[n][j].heap /\ ~fields[n][j].boxed}}}
    ELSE IF n \in types
         THEN {Refs(n)[i].to : i \in {j \in DOMAIN Refs(n) : ~Refs(n)[j].heap}}
         ELSE {}

\* No Rust type contains itself by value: every non-empty set of types has one
\* that holds no other of the set inline.  This is what the box in
\* getModelField is for ("avoid infinitely recursive type definitions").
Sized == \A S \in (SUBSET Nodes) \ {{}} : \E n \in S : ByValue(n) \cap S = {}

\* The type graph restricted to n's successors, heap references included.
Successors(n) == {Refs(n)[i].to : i \in DOMAIN Refs(n)} \cup
                 (IF n \in Models THEN schema.addl[n] ELSE {})

\* n is one of the types that from refers to, directly or not.
ReachableFrom(from, n) ==
    \A S \in SUBSET Nodes :
        Successors(from) \subseteq S /\ (\A x \in S : Successors(x) \subseteq S)
            => n \in S

\* A box is spent only where the type graph really is recursive: the type of a
\* boxed field leads back to the model that has the field.
BoxedOnlyOnCycles ==
    \A m \in Models : \A i \in DOMAIN fields[m] :
        fields[m][i].boxed => ReachableFrom(fields[m][i].to, m)

\* A model which is cached and no longer being adapted has all of its fields,
\* in the order of its properties and each with its own type: a type met half
\* finished in the cache by a recursive call is completed later.
CachedModelsComplete ==
    \A m \in types \cap Models :
        LET open == {k \in 1..Len(calls) : calls[k].node = m}
            seen == IF open = {} THEN Len(Refs(m))
                    ELSE calls[CHOOSE k \in open : TRUE].at - 1
        IN  /\ Len(fields[m]) = seen
            /\ \A i \in 1..seen : /\ fields[m][i].to = Refs(m)[i].to
                                  /\ fields[m][i].heap = Refs(m)[i].heap

\* No type is pushed into its module twice (it would be emitted twice).
RegisteredOnce == \A n \in Nodes : pushed[n] <= 1

\* Every field of a registered Unknown<Name> model is a reference.
BaseFieldsAreRefs ==
    \A u \in Unions :
        schema.kind[u] = "extensible" /\ u \in types =>
            LET base == Refs(u)[1].to IN
            /\ pushed[base] = 1
            /\ \A i \in DOMAIN fields[base] : fields[base][i].ref

\* When adaptTypes ends, every type that was adapted has been pushed into a
\* module, Unknown<Name> included, and so has everything it refers to: no
\* emitted type names one that is not emitted.
NothingMissing ==
    Done => \A n \in types : pushed[n] >= 1 /\ Successors(n) \subseteq types

\* adaptTypes ends.
Terminates == <>Done

\* No cycle of the type graph passes through a union or through additional
\* properties: the level never rises along a reference and falls on those.
Stratified(s) ==
    \A n \in Nodes :
        /\ \A i \in DOMAIN s.refs[n] :
              LET t == s.refs[n][i].to IN
              /\ s.level[t] <= s.level[n]
              /\ t \in Unions => s.level[t] < s.level[n]
        /\ n \in Models => \A t \in s.addl[n] : s.level[t] < s.level[n]

Untagged(s, n) == n \in Unions /\ s.kind[n] = "untagged"

\* The model Unknown<Name> of an extensible union.
BaseOf(s, u) == s.refs[u][1].to

IsBase(s, n) == \E u \in Unions : s.kind[u] = "extensible" /\ BaseOf(s, u) = n

IsRoot(s, n) == \E i \in DOMAIN s.roots : s.roots[i] = n

\* The package lists every type once that others refer to, but for the untagged
\* unions, which may be missing, and the models Unknown<Name>, which tcgc does
\* not know.
Listed(s) ==
    /\ \A i, j \in DOMAIN s.roots : s.roots[i] = s.roots[j] => i = j
    /\ \A i \in DOMAIN s.roots : ~IsBase(s, s.roots[i])
    /\ \A n \in Nodes : \A i \in DOMAIN s.refs[n] :
          \/ IsRoot(s, s.refs[n][i].to) \/ Untagged(s, s.refs[n][i].to)
          \/ n \in Unions /\ s.kind[n] = "extensible" /\ i = 1
    /\ \A m \in Models : \A n \in s.addl[m] : IsRoot(s, n) \/ Untagged(s, n)

----------------------------------------------------------------------------
(* The inductive invariant behind Sized for stratified type graphs. *)

\* The call k is a getModel that has not adapted all of its fields.
Open(k) == /\ calls[k].node \in Models
           /\ calls[k].at <= Len(Refs(calls[k].node))

\* The types nothing will be added to.
Closed == {n \in types : \A k \in 1..Len(calls) : calls[k].node = n => ~Open(k)}

\* A model is cached from its call on and is on its own stack, a union is not
\* cached before its call returns.
FramesOK ==
    \A k \in 1..Len(calls) :
        IF calls[k].node \in Models
        THEN calls[k].node \in types /\ calls[k].node \in calls[k].stack
        ELSE calls[k].node \notin types

\* An outer call that is still open is on the stack of the inner one, or it is
\* on a higher level: the stack is cut only where the level falls.
ChainOK ==
    \A k \in 1..Len(calls) : \A j \in 1..(k - 1) :
        LET outer == calls[j].node
            inner == calls[k].node
        IN  /\ outer # inner
            /\ schema.level[inner] <= schema.level[outer]
            /\ inner \in Unions => schema.level[inner] < schema.level[outer]
            /\ \/ outer \in calls[k].stack
               \/ ~Open(j)
               \/ schema.level[inner] < schema.level[outer]

\* What a type holds by value has been closed before.
EdgesClosed == \A n \in Nodes : ByValue(n) \subseteq Closed

\* The variants a union has adapted are closed.
VariantsClosed ==
    \A k \in 1..Len(calls) : calls[k].node \in Unions =>
        \A i \in 1..(calls[k].at - 1) : Refs(calls[k].node)[i].to \in Closed

\* The cache, the call stack and the model stacks fit together.
CallStackInv == FramesOK /\ ChainOK /\ EdgesClosed /\ VariantsClosed
=============================================================================
