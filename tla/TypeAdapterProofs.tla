------------------------- MODULE TypeAdapterProofs -------------------------
(***************************************************************************)
(* Theorems about TypeAdapter for any models, unions and type graphs: the  *)
(* types and the calls, the fields it gives the models, and what it pushes *)
(* into the modules.                                                       *)
(***************************************************************************)
EXTENDS TypeAdapter, SequenceTheorems, TLAPS

----------------------------------------------------------------------------
(* Pushing, advancing and popping a call, frame by frame. *)

LEMMA Pushed ==
    ASSUME NEW s \in Seq(Frame), NEW f \in Frame
    PROVE  /\ Append(s, f) \in Seq(Frame)
           /\ Len(Append(s, f)) = Len(s) + 1
           /\ \A k \in 1..Len(s) : Append(s, f)[k] = s[k]
           /\ Append(s, f)[Len(s) + 1] = f
  OBVIOUS

LEMMA Popped ==
    ASSUME NEW s \in Seq(Frame), s # <<>>
    PROVE  /\ SubSeq(s, 1, Len(s) - 1) \in Seq(Frame)
           /\ Len(SubSeq(s, 1, Len(s) - 1)) = Len(s) - 1
           /\ \A k \in 1..(Len(s) - 1) : SubSeq(s, 1, Len(s) - 1)[k] = s[k]
<1>1. Len(s) \in Nat /\ Len(s) # 0
  OBVIOUS
<1>2. \A k \in 1..(Len(s) - 1) : s[k] \in Frame
  OBVIOUS
<1> DEFINE n == Len(s) - 1
<1>3. n \in Int /\ 1 \in Int /\ \A i \in 1..n : s[i] \in Frame
  BY <1>1, <1>2
<1>4. /\ SubSeq(s, 1, n) \in Seq(Frame)
      /\ Len(SubSeq(s, 1, n)) = IF 1 <= n THEN n - 1 + 1 ELSE 0
      /\ \A i \in 1..(n - 1 + 1) : SubSeq(s, 1, n)[i] = s[1 + i - 1]
  <2> HIDE DEF n
  <2> QED BY <1>3, SubSeqProperties
<1>5. \A k \in 1..n : SubSeq(s, 1, n)[k] = s[k]
  <2> TAKE k \in 1..n
  <2>1. k \in 1..(n - 1 + 1) /\ 1 + k - 1 = k
    BY <1>1
  <2> HIDE DEF n
  <2> QED BY <1>4, <2>1
<1>6. Len(SubSeq(s, 1, n)) = n
  <2>1. n \in Nat
    BY <1>1
  <2> HIDE DEF n
  <2> QED BY <1>4, <2>1
<1>7. QED
  BY <1>4, <1>5, <1>6

LEMMA TopFrame ==
    ASSUME TypeOK, Active
    PROVE  /\ calls \in Seq(Frame)
           /\ DOMAIN calls = 1..Len(calls)
           /\ Len(calls) \in Nat
           /\ Len(calls) \in 1..Len(calls)
           /\ Top = calls[Len(calls)]
           /\ Top \in Frame
           /\ Refs(Top.node) \in Seq(Ref)
           /\ Len(Refs(Top.node)) \in Nat
           /\ Top.at \in 1..(Len(Refs(Top.node)) + 1)
<1>1. calls \in Seq(Frame)
  BY DEF TypeOK
<1>2. DOMAIN calls = 1..Len(calls) /\ Len(calls) \in Nat /\ Len(calls) \in 1..Len(calls)
  BY <1>1 DEF Active
<1>3. Top = calls[Len(calls)] /\ Top \in Frame
  BY <1>1, <1>2, ElementOfSeq DEF Top
<1>4. Top.node \in Nodes /\ Top.at \in Nat \ {0}
  BY <1>3 DEF Frame
<1>5. Refs(Top.node) \in Seq(Ref)
  BY <1>4 DEF TypeOK, WellFormed, Schema, Refs
<1>6. Top.at <= Len(Refs(Top.node)) + 1
  BY <1>2, <1>3 DEF TypeOK
<1>7. Len(Refs(Top.node)) \in Nat
  BY <1>5
<1>8. Top.at \in 1..(Len(Refs(Top.node)) + 1)
  BY <1>4, <1>6, <1>7
<1>9. QED
  BY <1>1, <1>2, <1>3, <1>5, <1>7, <1>8

LEMMA AdvancedTop ==
    ASSUME TypeOK, Active, Advance, ~Finished
    PROVE  /\ calls' \in Seq(Frame)
           /\ Len(calls') = Len(calls)
           /\ \A k \in 1..(Len(calls) - 1) : calls'[k] = calls[k]
           /\ calls'[Len(calls)] = Advanced(Top)
           /\ Advanced(Top).node = Top.node
           /\ Advanced(Top).stack = Top.stack
           /\ Advanced(Top).at = Top.at + 1
           /\ Top.at \in 1..Len(Refs(Top.node))
<1>1. Advanced(Top) \in Frame
  BY TopFrame DEF Advanced, Frame
<1>2. /\ Advanced(Top).node = Top.node
      /\ Advanced(Top).stack = Top.stack
      /\ Advanced(Top).at = Top.at + 1
  BY TopFrame DEF Advanced, Frame
<1>3. calls' = [calls EXCEPT ![Len(calls)] = Advanced(Top)]
  BY TopFrame DEF Advance
<1>4. /\ calls' \in Seq(Frame)
      /\ Len(calls') = Len(calls)
      /\ \A j \in 1..Len(calls) :
            calls'[j] = IF j = Len(calls) THEN Advanced(Top) ELSE calls[j]
  BY <1>1, <1>3, TopFrame, ExceptSeq
<1>5. Top.at \in 1..Len(Refs(Top.node))
  BY TopFrame DEF Finished
<1>6. QED
  BY <1>2, <1>4, <1>5, TopFrame

LEMMA PoppedTop ==
    ASSUME TypeOK, Active, Return
    PROVE  /\ calls' \in Seq(Frame)
           /\ Len(calls') = Len(calls) - 1
           /\ \A k \in 1..(Len(calls) - 1) : calls'[k] = calls[k]
BY TopFrame, Popped DEF Active, Return

\* An unfinished top call has a reference to visit.
LEMMA PendingRef ==
    ASSUME TypeOK, Active, ~Finished
    PROVE  /\ Top.at \in 1..Len(Refs(Top.node))
           /\ Pending = Refs(Top.node)[Top.at]
           /\ Pending \in Ref
           /\ Pending.to \in Nodes
           /\ Top.node \in Nodes
           /\ Top.stack \in SUBSET Models
<1>1. Top.at \in 1..Len(Refs(Top.node))
  BY TopFrame DEF Finished
<1>2. Pending = Refs(Top.node)[Top.at] /\ Pending \in Ref
  BY <1>1, TopFrame, ElementOfSeq DEF Pending
<1>3. Pending.to \in Nodes
  BY <1>2 DEF Ref
<1>4. Top.node \in Nodes /\ Top.stack \in SUBSET Models
  BY TopFrame DEF Frame
<1>5. QED
  BY <1>1, <1>2, <1>3, <1>4

\* The frame of a new call.
NewFrame(n, stack) ==
    [node |-> n, at |-> 1, stack |-> IF n \in Models THEN stack \cup {n} ELSE {}]

\* What getType does on a cache miss: it starts one call.
LEMMA NewCall ==
    ASSUME TypeOK, NEW n \in Nodes, NEW stack \in SUBSET Models, GetType(n, stack)
    PROVE  /\ n \notin types
           /\ types' = IF n \in Models THEN types \cup {n} ELSE types
           /\ UNCHANGED <<schema, roots, fields, pushed>>
           /\ calls' = Append(calls, NewFrame(n, stack))
           /\ calls' \in Seq(Frame)
           /\ Len(calls) \in Nat
           /\ Len(calls') = Len(calls) + 1
           /\ \A k \in 1..Len(calls) : calls'[k] = calls[k]
           /\ calls'[Len(calls) + 1] = NewFrame(n, stack)
           /\ NewFrame(n, stack) \in Frame
<1>1. /\ n \notin types
      /\ types' = IF n \in Models THEN types \cup {n} ELSE types
      /\ UNCHANGED <<schema, roots, fields, pushed>>
      /\ calls' = Append(calls, NewFrame(n, stack))
  BY SchemasAssumption DEF GetType, GetModel, GetUnion, NewFrame
<1>2. NewFrame(n, stack) \in Frame
  BY DEF NewFrame, Frame, Nodes
<1>3. calls \in Seq(Frame)
  BY DEF TypeOK
<1>4. Len(calls) \in Nat
  BY <1>3
<1>5. QED
  BY <1>1, <1>2, <1>3, <1>4, Pushed

LEMMA TypeInit == Init => TypeOK
<1> SUFFICES ASSUME Init PROVE TypeOK
  OBVIOUS
<1>1. WellFormed(schema)
  BY SchemasAssumption DEF Init
<1>2. roots \in Seq(Nodes)
  BY <1>1 DEF Init, WellFormed, Schema
<1>3. calls \in Seq(Frame) /\ DOMAIN calls = {}
  BY DEF Init
<1>4. fields \in [Models -> Seq(FieldRec)] /\ pushed \in [Nodes -> Nat] /\ types \in SUBSET Nodes
  BY DEF Init
<1>5. QED
  BY <1>1, <1>2, <1>3, <1>4 DEF TypeOK

\* One step preserves the types, action by action.
LEMMA TypeStep == TypeOK /\ [Next]_vars => TypeOK'
<1> SUFFICES ASSUME TypeOK, [Next]_vars PROVE TypeOK'
  OBVIOUS
<1> USE DEF Refs
\* A new call.
<1>1. ASSUME NEW n \in Nodes, NEW stack \in SUBSET Models, GetType(n, stack)
      PROVE  TypeOK'
  <2>1. /\ UNCHANGED <<schema, roots, fields, pushed>>
        /\ types' \in SUBSET Nodes
        /\ calls' \in Seq(Frame)
    BY <1>1, NewCall DEF TypeOK, Nodes
  <2>2. Len(schema.refs[n]) \in Nat
    BY DEF TypeOK, WellFormed, Schema
  <2>0. /\ Len(calls) \in Nat
        /\ Len(calls') = Len(calls) + 1
        /\ \A k \in 1..Len(calls) : calls'[k] = calls[k]
        /\ calls'[Len(calls) + 1] = NewFrame(n, stack)
    BY <1>1, NewCall
  <2>5. NewFrame(n, stack).at = 1 /\ NewFrame(n, stack).node = n
    BY DEF NewFrame
  <2>6. \A k \in 1..Len(calls) : calls[k].at <= Len(schema.refs[calls[k].node]) + 1
    BY DEF TypeOK
  <2>3. ASSUME NEW k \in 1..Len(calls')
        PROVE  calls'[k].at <= Len(schema.refs[calls'[k].node]) + 1
    <3>1. CASE k = Len(calls) + 1
      BY <2>0, <2>2, <2>5, <3>1
    <3>2. CASE k # Len(calls) + 1
      BY <2>0, <2>6, <3>2
    <3>3. QED
      BY <3>1, <3>2
  <2>4. QED
    BY <2>1, <2>3 DEF TypeOK
\* The top call advances.
<1>2. ASSUME Active, ~Finished, Advance, UNCHANGED <<schema, roots, types>>,
             fields' \in [Models -> Seq(FieldRec)], pushed' \in [Nodes -> Nat]
      PROVE  TypeOK'
  <2>0. /\ Len(calls) \in Nat
        /\ Len(calls') = Len(calls)
        /\ \A k \in 1..(Len(calls) - 1) : calls'[k] = calls[k]
        /\ calls'[Len(calls)].node = Top.node
        /\ calls'[Len(calls)].at = Top.at + 1
        /\ Top.at \in 1..Len(schema.refs[Top.node])
        /\ Len(schema.refs[Top.node]) \in Nat
    BY <1>2, AdvancedTop, TopFrame
  <2>6. \A k \in 1..Len(calls) : calls[k].at <= Len(schema.refs[calls[k].node]) + 1
    BY DEF TypeOK
  <2>1. ASSUME NEW k \in 1..Len(calls')
        PROVE  calls'[k].at <= Len(schema.refs[calls'[k].node]) + 1
    <3>1. CASE k = Len(calls)
      BY <2>0, <3>1
    <3>2. CASE k # Len(calls)
      <4>1. k \in 1..(Len(calls) - 1) /\ k \in 1..Len(calls)
        BY <2>0, <3>2
      <4>2. QED
        BY <2>0, <2>6, <4>1
    <3>3. QED
      BY <3>1, <3>2
  <2>2. calls' \in Seq(Frame)
    BY <1>2, AdvancedTop
  <2>3. QED
    BY <1>2, <2>1, <2>2 DEF TypeOK
\* The top call returns.
<1>3. ASSUME Active, Return, UNCHANGED <<schema, roots, fields>>,
             types' \in SUBSET Nodes, pushed' \in [Nodes -> Nat]
      PROVE  TypeOK'
  <2>0. /\ Len(calls) \in Nat
        /\ Len(calls') = Len(calls) - 1
        /\ \A k \in 1..(Len(calls) - 1) : calls'[k] = calls[k]
    BY <1>3, PoppedTop, TopFrame
  <2>6. \A k \in 1..Len(calls) : calls[k].at <= Len(schema.refs[calls[k].node]) + 1
    BY DEF TypeOK
  <2>1. ASSUME NEW k \in 1..Len(calls')
        PROVE  calls'[k].at <= Len(schema.refs[calls'[k].node]) + 1
    <3>1. k \in 1..(Len(calls) - 1) /\ k \in 1..Len(calls)
      BY <2>0
    <3>2. QED
      BY <2>0, <2>6, <3>1
  <2>2. calls' \in Seq(Frame)
    BY <1>3, PoppedTop
  <2>3. QED
    BY <1>3, <2>1, <2>2 DEF TypeOK
<1>4. CASE VisitRoot
  <2>1. Head(roots) \in Nodes
    BY <1>4 DEF VisitRoot, TypeOK
  <2>2. QED
    BY <1>1, <1>4, <2>1 DEF VisitRoot
<1>5. CASE RegisterRoot
  <2>1. Head(roots) \in Nodes /\ Tail(roots) \in Seq(Nodes)
    BY <1>5 DEF RegisterRoot, TypeOK
  <2>2. pushed' \in [Nodes -> Nat]
    BY <1>5, <2>1 DEF RegisterRoot, TypeOK
  <2>3. QED
    BY <1>5, <2>1, <2>2 DEF RegisterRoot, TypeOK
<1>6. CASE VisitProperty
  <2>1. Pending.to \in Nodes /\ Top.stack \in SUBSET Models
    BY <1>6, PendingRef DEF VisitProperty, InModel
  <2>2. QED
    BY <1>1, <1>6, <2>1 DEF VisitProperty
<1>7. CASE AddField
  <2> DEFINE f == Field(Pending, FieldNeedsBoxing(Pending, Top.stack))
  <2>1. Pending \in Ref /\ Top.node \in Models
    BY <1>7, PendingRef DEF AddField, InModel
  <2>2. FieldNeedsBoxing(Pending, Top.stack) \in BOOLEAN
    BY DEF FieldNeedsBoxing
  <2>3. f \in FieldRec
    BY <2>1, <2>2 DEF Ref, Field, FieldRec
  <2> HIDE DEF f
  <2>4. fields' = [fields EXCEPT ![Top.node] = Append(@, f)]
    BY <1>7 DEF AddField, f
  <2>5. fields' \in [Models -> Seq(FieldRec)]
    BY <2>1, <2>3, <2>4 DEF TypeOK
  <2>6. QED
    BY <1>2, <1>7, <2>5 DEF AddField, InModel, TypeOK
<1>8. CASE VisitAddlProps
  <2>1. Top.node \in Models
    BY <1>8 DEF VisitAddlProps, InModel
  <2>2. schema.addl[Top.node] \in SUBSET Nodes
    BY <2>1 DEF TypeOK, WellFormed, Schema
  <2>3. QED
    BY <1>1, <1>8, <2>2 DEF VisitAddlProps
<1>9. CASE ModelReturns
  BY <1>3, <1>9 DEF ModelReturns, InModel, TypeOK
<1>10. CASE VisitVariant
  <2>1. Pending.to \in Nodes
    BY <1>10, PendingRef DEF VisitVariant, InUnion
  <2>2. QED
    BY <1>1, <1>10, <2>1 DEF VisitVariant
<1>11. CASE AddVariant
  BY <1>2, <1>11 DEF AddVariant, InUnion, TypeOK
<1>12. CASE FixUpBase
  <2>1. fields' \in [Models -> Seq(FieldRec)] /\ pushed' \in [Nodes -> Nat]
    <3>1. CASE UNCHANGED <<fields, pushed>>
      BY <3>1 DEF TypeOK
    <3>2. CASE /\ fields' = [fields EXCEPT ![Pending.to] =
                               [i \in DOMAIN @ |-> [@[i] EXCEPT !.ref = TRUE]]]
               /\ pushed' = [pushed EXCEPT ![Pending.to] = 1]
      <4> DEFINE old == fields[Pending.to]
                 new == [i \in DOMAIN old |-> [old[i] EXCEPT !.ref = TRUE]]
      <4>1. ASSUME Pending.to \in Models
            PROVE  new \in Seq(FieldRec)
        <5>1. old \in Seq(FieldRec)
          BY <4>1 DEF TypeOK
        <5> HIDE DEF old
        <5>2. Len(old) \in Nat /\ DOMAIN old = 1..Len(old)
          BY <5>1
        <5>3. \A i \in 1..Len(old) : [old[i] EXCEPT !.ref = TRUE] \in FieldRec
          <6> TAKE i \in 1..Len(old)
          <6>1. old[i] \in FieldRec
            BY <5>1
          <6> QED BY <6>1 DEF FieldRec
        <5> QED BY <5>2, <5>3
      <4> HIDE DEF new
      <4>2. fields' = [fields EXCEPT ![Pending.to] = new]
        BY <3>2 DEF new
      <4>3. fields' \in [Models -> Seq(FieldRec)]
        BY <4>1, <4>2 DEF TypeOK
      <4>4. pushed' \in [Nodes -> Nat]
        BY <3>2 DEF TypeOK
      <4>5. QED
        BY <4>3, <4>4
    <3>3. QED
      BY <1>12, <3>1, <3>2 DEF FixUpBase
  <2>2. QED
    BY <1>2, <1>12, <2>1 DEF FixUpBase, InUnion
<1>13. CASE UnionReturns
  <2>1. Top.node \in Nodes
    BY <1>13, TopFrame DEF UnionReturns, InUnion, Frame
  <2>2. types' \in SUBSET Nodes /\ pushed' \in [Nodes -> Nat]
    BY <1>13, <2>1 DEF UnionReturns, TypeOK
  <2>3. QED
    BY <1>3, <1>13, <2>2 DEF UnionReturns, InUnion
<1>14. CASE UNCHANGED vars
  BY <1>14 DEF TypeOK, vars
<1>15. QED
  BY <1>4, <1>5, <1>6, <1>7, <1>8, <1>9, <1>10, <1>11, <1>12, <1>13, <1>14
     DEF Next, Terminated

\* The variables always have their types, whatever the type graph.
THEOREM TypeCorrect == Spec => []TypeOK
<1>1. Init => TypeOK
  BY TypeInit
<1>2. TypeOK /\ [Next]_vars => TypeOK'
  BY TypeStep
<1>3. QED
  BY <1>1, <1>2, PTL DEF Spec

----------------------------------------------------------------------------
(* No type contains itself by value.                                       *)
(*                                                                         *)
(* A field is added by value only if its type is closed: an open model     *)
(* either is on the stack, and the field is boxed, or is an outer call on  *)
(* a higher level, which a stratified type graph rules out.  So an edge    *)
(* always leads from a type that is not closed to one that is, and edges   *)
(* added in that way never close a cycle.                                  *)

Inv == TypeOK /\ Stratified(schema) /\ CallStackInv /\ Sized

\* Sized, for the edges f of a graph with the nodes N.
Acyclic(N, f) == \A S \in (SUBSET N) \ {{}} : \E n \in S : f[n] \cap S = {}

\* g is f with other edges from x, and no edge leads to x.
GrowsAt(N, f, g, x) == /\ x \in N
                       /\ \A n \in N : n # x => g[n] = f[n]
                       /\ \A n \in N : x \notin f[n]
                       /\ x \notin g[x]

\* Edges from x to others close no cycle as long as no edge leads to x.
LEMMA SizedGrows ==
    ASSUME NEW N, NEW f, NEW g, NEW x, GrowsAt(N, f, g, x), Acyclic(N, f)
    PROVE  Acyclic(N, g)
<1> SUFFICES ASSUME NEW S \in (SUBSET N) \ {{}}
             PROVE  \E n \in S : g[n] \cap S = {}
  BY DEF Acyclic
<1> USE DEF GrowsAt, Acyclic
<1>1. CASE x \notin S
  <2>1. PICK n \in S : f[n] \cap S = {}
    OBVIOUS
  <2>2. g[n] = f[n]
    BY <1>1
  <2>3. QED
    BY <2>1, <2>2
<1>2. CASE S = {x}
  BY <1>2
<1>3. CASE x \in S /\ S # {x}
  <2> DEFINE T == S \ {x}
  <2>1. T \in (SUBSET N) \ {{}}
    BY <1>3
  <2>2. PICK n \in T : f[n] \cap T = {}
    BY <2>1
  <2>3. n \in S /\ n # x /\ g[n] = f[n] /\ x \notin f[n]
    BY <2>2
  <2>4. QED
    BY <2>2, <2>3
<1>4. QED
  BY <1>1, <1>2, <1>3

\* What the levels say of the pending reference.
LEMMA PendingLevel ==
    ASSUME TypeOK, Stratified(schema), Active, ~Finished
    PROVE  /\ schema.level[Pending.to] <= schema.level[Top.node]
           /\ Pending.to \in Unions => schema.level[Pending.to] < schema.level[Top.node]
<1>1. Top.at \in DOMAIN schema.refs[Top.node] /\ Top.node \in Nodes
      /\ Pending = schema.refs[Top.node][Top.at]
  BY PendingRef, TopFrame DEF Refs
<1>2. QED
  BY <1>1 DEF Stratified

LEMMA Levels ==
    ASSUME TypeOK
    PROVE  /\ \A n \in Nodes : schema.level[n] \in Nat
           /\ \A k \in 1..Len(calls) : calls[k].node \in Nodes
           /\ Len(calls) \in Nat
<1>1. \A n \in Nodes : schema.level[n] \in Nat
  BY DEF TypeOK, WellFormed, Schema
<1>2. \A k \in 1..Len(calls) : calls[k] \in Frame
  BY ElementOfSeq DEF TypeOK
<1>3. QED
  BY <1>1, <1>2 DEF Frame, TypeOK

\* n may be called with this stack: the calls below it are on the stack, have
\* their fields, or are on a higher level.
MayCall(n, stack) ==
    \A j \in 1..Len(calls) :
        /\ schema.level[n] <= schema.level[calls[j].node]
        /\ n \in Unions => schema.level[n] < schema.level[calls[j].node]
        /\ \/ calls[j].node \in stack
           \/ ~Open(j)
           \/ schema.level[n] < schema.level[calls[j].node]

LEMMA InvNewCall ==
    ASSUME Inv, NEW n \in Nodes, NEW stack \in SUBSET Models,
           GetType(n, stack), MayCall(n, stack)
    PROVE  (CallStackInv /\ Sized)'
<1> USE DEF Inv
<1>1. /\ n \notin types
      /\ types' = IF n \in Models THEN types \cup {n} ELSE types
      /\ schema' = schema /\ fields' = fields
      /\ Len(calls) \in Nat
      /\ Len(calls') = Len(calls) + 1
      /\ \A k \in 1..Len(calls) : calls'[k] = calls[k]
      /\ calls'[Len(calls) + 1] = NewFrame(n, stack)
  BY NewCall
<1>2. /\ NewFrame(n, stack).node = n
      /\ NewFrame(n, stack).at = 1
      /\ NewFrame(n, stack).stack = IF n \in Models THEN stack \cup {n} ELSE {}
  BY DEF NewFrame
<1>3. ASSUME NEW k \in 1..Len(calls')
      PROVE  \/ k \in 1..Len(calls) /\ calls'[k] = calls[k]
             \/ k = Len(calls) + 1 /\ calls'[k] = NewFrame(n, stack)
  BY <1>1
<1>4. \A k \in 1..Len(calls) : Open(k)' <=> Open(k)
  BY <1>1 DEF Open, Refs
<1>5. FramesOK'
  <2>1. ASSUME NEW k \in 1..Len(calls')
        PROVE  IF calls'[k].node \in Models
               THEN calls'[k].node \in types' /\ calls'[k].node \in calls'[k].stack
               ELSE calls'[k].node \notin types'
    <3>1. CASE k \in 1..Len(calls) /\ calls'[k] = calls[k]
      BY <1>1, <3>1 DEF CallStackInv, FramesOK
    <3>2. CASE k = Len(calls) + 1 /\ calls'[k] = NewFrame(n, stack)
      BY <1>1, <1>2, <3>2 DEF CallStackInv, FramesOK
    <3>3. QED
      BY <1>3, <3>1, <3>2
  <2>2. QED
    BY <2>1 DEF FramesOK
<1>6. ASSUME NEW j \in 1..Len(calls)
      PROVE  calls[j].node # n
  <2>1. calls[j].node \in Nodes /\ schema.level[n] \in Nat
    BY Levels
  <2>2. CASE n \in Unions
    BY <2>1, <2>2 DEF MayCall
  <2>3. CASE n \in Models
    BY <1>1, <2>3 DEF CallStackInv, FramesOK
  <2>4. QED
    BY <2>2, <2>3 DEF Nodes
<1>7. ChainOK'
  <2>1. ASSUME NEW k \in 1..Len(calls'), NEW j \in 1..(k - 1)
        PROVE  /\ calls'[j].node # calls'[k].node
               /\ schema.level[calls'[k].node] <= schema.level[calls'[j].node]
               /\ calls'[k].node \in Unions =>
                     schema.level[calls'[k].node] < schema.level[calls'[j].node]
               /\ \/ calls'[j].node \in calls'[k].stack
                  \/ ~Open(j)'
                  \/ schema.level[calls'[k].node] < schema.level[calls'[j].node]
    <3>1. j \in 1..Len(calls) /\ calls'[j] = calls[j] /\ (Open(j)' <=> Open(j))
      BY <1>1, <1>4
    <3>2. CASE k \in 1..Len(calls) /\ calls'[k] = calls[k]
      BY <3>1, <3>2 DEF CallStackInv, ChainOK
    <3>3. CASE k = Len(calls) + 1 /\ calls'[k] = NewFrame(n, stack)
      <4>1. calls[j].node # n
        BY <1>6, <3>1
      <4>2. /\ schema.level[n] <= schema.level[calls[j].node]
            /\ n \in Unions => schema.level[n] < schema.level[calls[j].node]
            /\ \/ calls[j].node \in stack
               \/ ~Open(j)
               \/ schema.level[n] < schema.level[calls[j].node]
        BY <3>1 DEF MayCall
      <4>3. CASE n \in Models
        BY <1>2, <3>1, <3>3, <4>1, <4>2, <4>3
      <4>4. CASE n \in Unions
        BY <1>2, <3>1, <3>3, <4>1, <4>2, <4>4
      <4>5. QED
        BY <4>3, <4>4 DEF Nodes
    <3>4. QED
      BY <1>3, <3>2, <3>3
  <2>2. QED
    BY <1>1, <2>1 DEF ChainOK
<1>8. Closed \subseteq Closed'
  <2>1. ASSUME NEW x \in Closed, NEW k \in 1..Len(calls'), calls'[k].node = x
        PROVE  ~Open(k)'
    <3>1. x # n
      BY <1>1 DEF Closed
    <3>2. k \in 1..Len(calls) /\ calls'[k] = calls[k]
      BY <1>2, <1>3, <2>1, <3>1
    <3>3. QED
      BY <1>4, <2>1, <3>2 DEF Closed
  <2>2. QED
    BY <1>1, <2>1 DEF Closed
<1>9. \A x \in Nodes : ByValue(x)' = ByValue(x)
  <2> TAKE x \in Nodes
  <2>1. CASE x \in Models
    BY <1>1, <2>1 DEF ByValue
  <2>2. CASE x \in Unions
    <3>1. x \in types' <=> x \in types
      BY <1>1, <2>2, SchemasAssumption
    <3>2. x \notin Models
      BY <2>2, SchemasAssumption
    <3>3. QED
      BY <1>1, <3>1, <3>2 DEF ByValue, Refs
  <2>3. QED
    BY <2>1, <2>2 DEF Nodes
<1>10. EdgesClosed'
  BY <1>8, <1>9 DEF CallStackInv, EdgesClosed
<1>11. VariantsClosed'
  <2>1. ASSUME NEW k \in 1..Len(calls'), calls'[k].node \in Unions,
               NEW i \in 1..(calls'[k].at - 1)
        PROVE  schema.refs[calls'[k].node][i].to \in Closed'
    <3>1. CASE k \in 1..Len(calls) /\ calls'[k] = calls[k]
      BY <1>1, <1>8, <2>1, <3>1 DEF CallStackInv, VariantsClosed, Refs
    <3>2. CASE k = Len(calls) + 1 /\ calls'[k] = NewFrame(n, stack)
      BY <1>2, <3>2
    <3>3. QED
      BY <1>3, <3>1, <3>2
  <2>2. QED
    BY <1>1, <2>1 DEF VariantsClosed, Refs
<1>12. Sized'
  BY <1>9 DEF Sized
<1>13. QED
  BY <1>5, <1>7, <1>10, <1>11, <1>12 DEF CallStackInv

\* The type of the pending reference, once cached, is closed or on the stack.
LEMMA PendingClosed ==
    ASSUME Inv, Active, ~Finished, Pending.to \in types
    PROVE  \/ Pending.to \in Closed
           \/ /\ Top.node \in Models
              /\ Pending.to \in Models
              /\ Pending.to \in Top.stack
<1> USE DEF Inv
<1> SUFFICES ASSUME Pending.to \notin Closed
             PROVE  /\ Top.node \in Models
                    /\ Pending.to \in Models
                    /\ Pending.to \in Top.stack
  OBVIOUS
<1>1. PICK j \in 1..Len(calls) : calls[j].node = Pending.to /\ Open(j)
  BY DEF Closed
<1>2. Pending.to \in Models
  BY <1>1 DEF Open
<1>3. Len(calls) \in 1..Len(calls) /\ Len(calls) \in Nat /\ Top = calls[Len(calls)]
  BY TopFrame
<1>4. /\ schema.level[Pending.to] \in Nat
      /\ schema.level[Top.node] \in Nat
      /\ schema.level[Pending.to] <= schema.level[Top.node]
  BY PendingRef, PendingLevel, Levels
<1>5. CASE j = Len(calls)
  BY <1>1, <1>2, <1>3, <1>5 DEF CallStackInv, FramesOK
<1>6. CASE j # Len(calls)
  <2>1. j \in 1..(Len(calls) - 1)
    BY <1>3, <1>6
  <2>2. /\ Top.node \in Unions => schema.level[Top.node] < schema.level[Pending.to]
        /\ \/ Pending.to \in Top.stack
           \/ ~Open(j)
           \/ schema.level[Top.node] < schema.level[Pending.to]
    BY <1>1, <1>3, <2>1 DEF CallStackInv, ChainOK
  <2>3. Top.node \notin Unions /\ Pending.to \in Top.stack
    BY <1>1, <1>4, <2>2
  <2>4. QED
    BY <1>2, <2>3, PendingRef DEF Nodes
<1>7. QED
  BY <1>5, <1>6

\* The call stack after the top call has advanced.
LEMMA InvAdvance ==
    ASSUME Inv, Active, ~Finished, Advance, UNCHANGED <<schema, types>>,
           Top.node \in Unions => Pending.to \in Closed
    PROVE  FramesOK' /\ ChainOK' /\ VariantsClosed' /\ Closed \subseteq Closed'
<1> USE DEF Inv
<1>1. /\ Len(calls) \in Nat
      /\ Len(calls) \in 1..Len(calls)
      /\ Len(calls') = Len(calls)
      /\ \A k \in 1..(Len(calls) - 1) : calls'[k] = calls[k]
      /\ Top = calls[Len(calls)]
      /\ calls'[Len(calls)].node = Top.node
      /\ calls'[Len(calls)].stack = Top.stack
      /\ calls'[Len(calls)].at = Top.at + 1
      /\ Top.at \in 1..Len(schema.refs[Top.node])
      /\ Len(schema.refs[Top.node]) \in Nat
      /\ Pending = schema.refs[Top.node][Top.at]
  BY AdvancedTop, TopFrame, PendingRef DEF Refs
<1>2. ASSUME NEW k \in 1..Len(calls)
      PROVE  /\ calls'[k].node = calls[k].node
             /\ calls'[k].stack = calls[k].stack
             /\ Open(k)' => Open(k)
             /\ \/ calls'[k].at = calls[k].at
                \/ k = Len(calls) /\ calls'[k].at = Top.at + 1
  <2>1. CASE k = Len(calls)
    <3>1. calls'[k].node = calls[k].node /\ calls'[k].stack = calls[k].stack
          /\ calls'[k].at = calls[k].at + 1 /\ calls[k].at \in Nat
          /\ Len(schema.refs[calls[k].node]) \in Nat
      BY <1>1, <2>1
    <3>2. Open(k)' => Open(k)
      BY <3>1 DEF Open, Refs
    <3>3. QED
      BY <1>1, <2>1, <3>1, <3>2
  <2>2. CASE k # Len(calls)
    <3>1. k \in 1..(Len(calls) - 1)
      BY <1>1, <2>2
    <3>2. calls'[k] = calls[k]
      BY <1>1, <3>1
    <3>3. QED
      BY <3>2 DEF Open, Refs
  <2>3. QED
    BY <2>1, <2>2
<1>3. FramesOK'
  BY <1>1, <1>2 DEF CallStackInv, FramesOK
<1>4. ChainOK'
  <2>1. ASSUME NEW k \in 1..Len(calls'), NEW j \in 1..(k - 1)
        PROVE  /\ calls'[j].node # calls'[k].node
               /\ schema.level[calls'[k].node] <= schema.level[calls'[j].node]
               /\ calls'[k].node \in Unions =>
                     schema.level[calls'[k].node] < schema.level[calls'[j].node]
               /\ \/ calls'[j].node \in calls'[k].stack
                  \/ ~Open(j)'
                  \/ schema.level[calls'[k].node] < schema.level[calls'[j].node]
    <3>1. k \in 1..Len(calls) /\ j \in 1..Len(calls)
      BY <1>1
    <3>2. QED
      BY <1>2, <3>1 DEF CallStackInv, ChainOK
  <2>2. QED
    BY <1>1, <2>1 DEF ChainOK
<1>5. Closed \subseteq Closed'
  BY <1>1, <1>2 DEF Closed
<1>6. VariantsClosed'
  <2>1. ASSUME NEW k \in 1..Len(calls'), calls'[k].node \in Unions,
               NEW i \in 1..(calls'[k].at - 1)
        PROVE  schema.refs[calls'[k].node][i].to \in Closed'
    <3>1. k \in 1..Len(calls) /\ calls[k].node \in Unions
      BY <1>1, <1>2, <2>1
    <3>2. CASE i \in 1..(calls[k].at - 1)
      BY <1>2, <1>5, <3>1, <3>2 DEF CallStackInv, VariantsClosed, Refs
    <3>3. CASE i \notin 1..(calls[k].at - 1)
      <4>1. k = Len(calls) /\ calls'[k].at = Top.at + 1 /\ calls[k] = Top
        BY <1>1, <1>2, <3>1, <3>3
      <4>2. i = Top.at
        BY <1>1, <3>3, <4>1
      <4>3. QED
        BY <1>1, <1>5, <2>1, <4>1, <4>2
    <3>4. QED
      BY <3>2, <3>3
  <2>2. QED
    BY <1>1, <2>1 DEF VariantsClosed, Refs
<1>7. QED
  BY <1>3, <1>4, <1>5, <1>6

\* The call stack after the top call has returned; a union is cached then.
LEMMA InvReturn ==
    ASSUME Inv, Active, Finished, Return, schema' = schema,
           types' = IF Top.node \in Unions THEN types \cup {Top.node} ELSE types
    PROVE  FramesOK' /\ ChainOK' /\ VariantsClosed' /\ Closed \subseteq Closed'
<1> USE DEF Inv
<1>1. /\ Len(calls) \in Nat
      /\ Len(calls) \in 1..Len(calls)
      /\ Len(calls') = Len(calls) - 1
      /\ \A k \in 1..(Len(calls) - 1) : calls'[k] = calls[k]
      /\ Top = calls[Len(calls)]
  BY PoppedTop, TopFrame
<1>2. ASSUME NEW k \in 1..Len(calls')
      PROVE  /\ k \in 1..(Len(calls) - 1)
             /\ k \in 1..Len(calls)
             /\ calls'[k] = calls[k]
             /\ Open(k)' <=> Open(k)
             /\ calls[k].node # Top.node
  <2>1. k \in 1..(Len(calls) - 1) /\ k \in 1..Len(calls) /\ calls'[k] = calls[k]
    BY <1>1
  <2>2. Open(k)' <=> Open(k)
    BY <2>1 DEF Open, Refs
  <2>3. calls[k].node # Top.node
    BY <1>1, <2>1 DEF CallStackInv, ChainOK
  <2>4. QED
    BY <2>1, <2>2, <2>3
<1>3. FramesOK'
  <2>1. ASSUME NEW k \in 1..Len(calls')
        PROVE  IF calls'[k].node \in Models
               THEN calls'[k].node \in types' /\ calls'[k].node \in calls'[k].stack
               ELSE calls'[k].node \notin types'
    BY <1>2 DEF CallStackInv, FramesOK
  <2>2. QED
    BY <2>1 DEF FramesOK
<1>4. ChainOK'
  <2>1. ASSUME NEW k \in 1..Len(calls'), NEW j \in 1..(k - 1)
        PROVE  /\ calls'[j].node # calls'[k].node
               /\ schema.level[calls'[k].node] <= schema.level[calls'[j].node]
               /\ calls'[k].node \in Unions =>
                     schema.level[calls'[k].node] < schema.level[calls'[j].node]
               /\ \/ calls'[j].node \in calls'[k].stack
                  \/ ~Open(j)'
                  \/ schema.level[calls'[k].node] < schema.level[calls'[j].node]
    <3>1. k \in 1..Len(calls) /\ j \in 1..Len(calls')
      BY <1>1
    <3>2. QED
      BY <1>2, <3>1 DEF CallStackInv, ChainOK
  <2>2. QED
    BY <1>1, <2>1 DEF ChainOK
<1>5. Closed \subseteq Closed'
  BY <1>1, <1>2 DEF Closed
<1>6. VariantsClosed'
  <2>1. ASSUME NEW k \in 1..Len(calls'), calls'[k].node \in Unions,
               NEW i \in 1..(calls'[k].at - 1)
        PROVE  schema.refs[calls'[k].node][i].to \in Closed'
    BY <1>2, <1>5, <2>1 DEF CallStackInv, VariantsClosed, Refs
  <2>2. QED
    BY <1>1, <2>1 DEF VariantsClosed, Refs
<1>7. QED
  BY <1>3, <1>4, <1>5, <1>6

\* What a model that gets one more field holds by value.
LEMMA ByValueAppend ==
    ASSUME NEW m \in Models, NEW f, fields[m] \in Seq(FieldRec),
           fields'[m] = Append(fields[m], f)
    PROVE  \A x \in ByValue(m)' :
              x \in ByValue(m) \/ (~f.heap /\ ~f.boxed /\ x = f.to)
<1> DEFINE old == fields[m]
<1>1. /\ Len(old) \in Nat
      /\ DOMAIN old = 1..Len(old)
      /\ DOMAIN fields'[m] = 1..(Len(old) + 1)
      /\ \A i \in 1..Len(old) : fields'[m][i] = old[i]
      /\ fields'[m][Len(old) + 1] = f
  OBVIOUS
<1>2. TAKE x \in ByValue(m)'
<1>3. PICK i \in DOMAIN fields'[m] :
         /\ ~fields'[m][i].heap /\ ~fields'[m][i].boxed
         /\ x = fields'[m][i].to
  BY DEF ByValue
<1>4. CASE i = Len(old) + 1
  BY <1>1, <1>3, <1>4
<1>5. CASE i # Len(old) + 1
  <2>1. i \in DOMAIN old /\ fields'[m][i] = old[i]
    BY <1>1, <1>5
  <2>2. QED
    BY <1>3, <2>1 DEF ByValue
<1>6. QED
  BY <1>4, <1>5

\* A field is added: its type is boxed, behind the heap, or closed.
LEMMA InvAddField ==
    ASSUME Inv, AddField
    PROVE  (CallStackInv /\ Sized)'
<1> USE DEF Inv
<1> DEFINE f == Field(Pending, FieldNeedsBoxing(Pending, Top.stack))
<1>0. PICK m \in Models : m = Top.node
  BY DEF AddField, InModel
<1>1. /\ Active /\ ~Finished /\ Advance /\ UNCHANGED <<schema, types>>
      /\ m \in Models /\ Pending.to \in types
      /\ fields' = [fields EXCEPT ![m] = Append(@, f)]
  BY <1>0 DEF AddField, InModel
<1>2. m \notin Unions /\ m \in Nodes
  BY <1>1, SchemasAssumption DEF Nodes
<1>3. FramesOK' /\ ChainOK' /\ VariantsClosed' /\ Closed \subseteq Closed'
  BY <1>0, <1>1, <1>2, InvAdvance
<1>4. m \notin Closed
  <2>1. Top.at \in 1..Len(Refs(Top.node)) /\ Len(calls) \in 1..Len(calls)
        /\ Top = calls[Len(calls)] /\ Len(Refs(Top.node)) \in Nat
    BY <1>1, PendingRef, TopFrame
  <2>2. Open(Len(calls))
    BY <1>0, <1>1, <2>1 DEF Open
  <2>3. QED
    BY <1>0, <2>1, <2>2 DEF Closed
<1>5. ~f.heap /\ ~f.boxed => f.to \in Closed
  <2>1. /\ f.to = Pending.to
        /\ f.heap = Pending.heap
        /\ f.boxed = FieldNeedsBoxing(Pending, Top.stack)
    BY DEF Field
  <2>2. ASSUME ~Pending.heap, Pending.to \in Models, Pending.to \in Top.stack
        PROVE  FieldNeedsBoxing(Pending, Top.stack)
    BY <2>2 DEF FieldNeedsBoxing
  <2>3. \/ Pending.to \in Closed
        \/ Pending.to \in Models /\ Pending.to \in Top.stack
    BY <1>1, PendingClosed
  <2> HIDE DEF f
  <2>4. QED
    BY <2>1, <2>2, <2>3
<1> HIDE DEF f
<1>6. fields[m] \in Seq(FieldRec) /\ fields'[m] = Append(fields[m], f)
  BY <1>1 DEF TypeOK
<1>7. ByValue(m)' \subseteq Closed
  <2>1. \A x \in ByValue(m)' : x \in ByValue(m) \/ (~f.heap /\ ~f.boxed /\ x = f.to)
    BY <1>1, <1>6, ByValueAppend
  <2>2. ByValue(m) \subseteq Closed
    BY <1>2 DEF CallStackInv, EdgesClosed
  <2>3. QED
    BY <1>5, <2>1, <2>2
<1>8. ASSUME NEW n \in Nodes, n # m
      PROVE  ByValue(n)' = ByValue(n)
  <2>1. CASE n \in Models
    <3>1. fields'[n] = fields[n]
      BY <1>1, <1>8, <2>1 DEF TypeOK
    <3>2. QED
      BY <2>1, <3>1 DEF ByValue
  <2>2. CASE n \notin Models
    BY <1>1, <2>2 DEF ByValue, Refs
  <2>3. QED
    BY <2>1, <2>2
<1>9. EdgesClosed'
  <2>1. ASSUME NEW n \in Nodes
        PROVE  ByValue(n)' \subseteq Closed'
    BY <1>3, <1>7, <1>8 DEF CallStackInv, EdgesClosed
  <2>2. QED
    BY <2>1 DEF EdgesClosed
<1>10. Sized'
  <2>0. PICK before, after : /\ before = [n \in Nodes |-> ByValue(n)]
                             /\ after  = [n \in Nodes |-> ByValue(n)']
    OBVIOUS
  <2>1. \A n \in Nodes : before[n] = ByValue(n) /\ after[n] = ByValue(n)'
    BY <2>0
  <2>2. GrowsAt(Nodes, before, after, m)
    BY <1>2, <1>4, <1>7, <1>8, <2>1 DEF GrowsAt, CallStackInv, EdgesClosed
  <2>3. Acyclic(Nodes, before)
    BY <2>1 DEF Sized, Acyclic
  <2>4. Acyclic(Nodes, after)
    BY <2>2, <2>3, SizedGrows
  <2>5. QED
    BY <2>1, <2>4 DEF Sized, Acyclic
<1>11. QED
  BY <1>3, <1>9, <1>10 DEF CallStackInv

\* A step that changes what no type holds by value.
LEMMA InvSameEdges ==
    ASSUME Inv, FramesOK', ChainOK', VariantsClosed', Closed \subseteq Closed',
           \A n \in Nodes : ByValue(n)' = ByValue(n)
    PROVE  (CallStackInv /\ Sized)'
<1>1. EdgesClosed'
  BY DEF Inv, CallStackInv, EdgesClosed
<1>2. Sized'
  BY DEF Inv, Sized
<1>3. QED
  BY <1>1, <1>2 DEF CallStackInv

LEMMA SameFieldsSameEdges ==
    ASSUME schema' = schema, fields' = fields, types' = types
    PROVE  \A n \in Nodes : ByValue(n)' = ByValue(n)
BY DEF ByValue, Refs

\* FixUpBase only marks fields as references.
LEMMA FixUpKeepsEdges ==
    ASSUME TypeOK, FixUpBase
    PROVE  \A n \in Nodes : ByValue(n)' = ByValue(n)
<1> TAKE n \in Nodes
<1>1. schema' = schema /\ types' = types
  BY DEF FixUpBase
<1>2. CASE n \notin Models
  BY <1>1, <1>2 DEF ByValue, Refs
<1>3. CASE n \in Models
  <2>1. fields[n] \in Seq(FieldRec)
    BY <1>3 DEF TypeOK
  <2>2. CASE fields'[n] = fields[n]
    BY <1>3, <2>2 DEF ByValue
  <2>3. CASE fields'[n] = [i \in DOMAIN fields[n] |-> [fields[n][i] EXCEPT !.ref = TRUE]]
    <3>1. DOMAIN fields'[n] = DOMAIN fields[n]
      BY <2>3
    <3>2. ASSUME NEW i \in DOMAIN fields[n]
          PROVE  /\ fields'[n][i].to = fields[n][i].to
                 /\ fields'[n][i].heap = fields[n][i].heap
                 /\ fields'[n][i].boxed = fields[n][i].boxed
      <4>1. fields[n][i] \in FieldRec
        BY <2>1
      <4>2. QED
        BY <2>3, <4>1 DEF FieldRec
    <3>3. QED
      BY <1>3, <3>1, <3>2 DEF ByValue
  <2>4. QED
    <3>1. \/ fields' = fields
          \/ fields' = [fields EXCEPT ![Pending.to] =
                          [i \in DOMAIN @ |-> [@[i] EXCEPT !.ref = TRUE]]]
      BY DEF FixUpBase
    <3>2. fields \in [Models -> Seq(FieldRec)]
      BY DEF TypeOK
    <3>3. QED
      BY <1>3, <2>2, <2>3, <3>1, <3>2
<1>4. QED
  BY <1>2, <1>3

LEMMA InvAdvanceUnion ==
    ASSUME Inv, AddVariant \/ FixUpBase
    PROVE  (CallStackInv /\ Sized)'
<1>1. /\ Active /\ ~Finished /\ Advance /\ UNCHANGED <<schema, types>>
      /\ Top.node \in Unions /\ Pending.to \in types
  BY DEF AddVariant, FixUpBase, InUnion
<1>2. Pending.to \in Closed
  BY <1>1, PendingClosed, SchemasAssumption
<1>3. FramesOK' /\ ChainOK' /\ VariantsClosed' /\ Closed \subseteq Closed'
  BY <1>1, <1>2, InvAdvance
<1>4. \A n \in Nodes : ByValue(n)' = ByValue(n)
  <2>1. CASE AddVariant
    BY <2>1, SameFieldsSameEdges DEF AddVariant
  <2>2. CASE FixUpBase
    BY <2>2, FixUpKeepsEdges DEF Inv
  <2>3. QED
    BY <2>1, <2>2
<1>5. QED
  BY <1>3, <1>4, InvSameEdges

LEMMA InvModelReturns ==
    ASSUME Inv, ModelReturns
    PROVE  (CallStackInv /\ Sized)'
<1>1. /\ Active /\ Finished /\ Return /\ UNCHANGED <<schema, types, fields>>
      /\ Top.node \notin Unions
  BY SchemasAssumption DEF ModelReturns, InModel
<1>2. FramesOK' /\ ChainOK' /\ VariantsClosed' /\ Closed \subseteq Closed'
  BY <1>1, InvReturn
<1>3. QED
  BY <1>1, <1>2, SameFieldsSameEdges, InvSameEdges

\* A union is cached: all of its variants are closed.
LEMMA InvUnionReturns ==
    ASSUME Inv, UnionReturns
    PROVE  (CallStackInv /\ Sized)'
<1> USE DEF Inv
<1>0. PICK u \in Unions : u = Top.node
  BY DEF UnionReturns, InUnion
<1>1. /\ Active /\ Finished /\ Return /\ UNCHANGED <<schema, fields>>
      /\ types' = types \cup {u}
      /\ u \notin Models /\ u \in Nodes
  BY <1>0, SchemasAssumption DEF UnionReturns, InUnion, Nodes
<1>2. FramesOK' /\ ChainOK' /\ VariantsClosed' /\ Closed \subseteq Closed'
  BY <1>0, <1>1, InvReturn
<1>3. /\ Len(calls) \in 1..Len(calls) /\ calls[Len(calls)] = Top
      /\ Len(schema.refs[u]) \in Nat /\ Top.at = Len(schema.refs[u]) + 1
      /\ DOMAIN schema.refs[u] = 1..Len(schema.refs[u])
  BY <1>0, <1>1, TopFrame DEF Finished, Refs
<1>4. u \notin Closed
  BY <1>0, <1>1, <1>3 DEF CallStackInv, FramesOK, Closed
<1>5. ByValue(u)' \subseteq Closed
  <2>1. \A i \in 1..(Top.at - 1) : schema.refs[u][i].to \in Closed
    BY <1>0, <1>3 DEF CallStackInv, VariantsClosed, Refs
  <2>2. \A i \in DOMAIN schema.refs[u] : schema.refs[u][i].to \in Closed
    BY <1>3, <2>1
  <2>3. QED
    BY <1>1, <2>2 DEF ByValue, Refs
<1>6. ASSUME NEW n \in Nodes, n # u
      PROVE  ByValue(n)' = ByValue(n)
  BY <1>1, <1>6 DEF ByValue, Refs
<1>7. EdgesClosed'
  <2>1. ASSUME NEW n \in Nodes
        PROVE  ByValue(n)' \subseteq Closed'
    BY <1>2, <1>5, <1>6 DEF CallStackInv, EdgesClosed
  <2>2. QED
    BY <2>1 DEF EdgesClosed
<1>8. Sized'
  <2>0. PICK before, after : /\ before = [n \in Nodes |-> ByValue(n)]
                             /\ after  = [n \in Nodes |-> ByValue(n)']
    OBVIOUS
  <2>1. \A n \in Nodes : before[n] = ByValue(n) /\ after[n] = ByValue(n)'
    BY <2>0
  <2>2. GrowsAt(Nodes, before, after, u)
    BY <1>1, <1>4, <1>5, <1>6, <2>1 DEF GrowsAt, CallStackInv, EdgesClosed
  <2>3. Acyclic(Nodes, before)
    BY <2>1 DEF Sized, Acyclic
  <2>4. Acyclic(Nodes, after)
    BY <2>2, <2>3, SizedGrows
  <2>5. QED
    BY <2>1, <2>4 DEF Sized, Acyclic
<1>9. QED
  BY <1>2, <1>7, <1>8 DEF CallStackInv

\* What may be called from the top call, and with which stack.
LEMMA TopMayCall ==
    ASSUME Inv, Active, NEW n \in Nodes, NEW stack,
           \/ /\ ~Finished /\ n = Pending.to
              /\ IF Top.node \in Models THEN stack = Top.stack ELSE stack = {}
           \/ /\ Top.node \in Models /\ n \in schema.addl[Top.node]
    PROVE  MayCall(n, stack)
<1> USE DEF Inv
<1>1. /\ Len(calls) \in Nat /\ Len(calls) \in 1..Len(calls) /\ Top = calls[Len(calls)]
      /\ Top.node \in Nodes
  BY TopFrame, Levels
<1> DEFINE level(x) == schema.level[x]
<1>2. \A x \in Nodes : level(x) \in Nat
  BY Levels
<1>3. \/ /\ Top.node \in Models /\ stack = Top.stack
         /\ level(n) <= level(Top.node)
         /\ n \in Unions => level(n) < level(Top.node)
      \/ /\ Top.node \in Unions
         /\ level(n) <= level(Top.node)
         /\ n \in Unions => level(n) < level(Top.node)
      \/ level(n) < level(Top.node)
  <2>1. CASE ~Finished /\ n = Pending.to /\ (IF Top.node \in Models THEN stack = Top.stack ELSE stack = {})
    BY <1>1, <2>1, PendingLevel DEF Nodes
  <2>2. CASE Top.node \in Models /\ n \in schema.addl[Top.node]
    BY <1>1, <2>2 DEF Stratified
  <2>3. QED
    BY <2>1, <2>2
<1>4. ASSUME NEW j \in 1..Len(calls)
      PROVE  /\ level(n) <= level(calls[j].node)
             /\ n \in Unions => level(n) < level(calls[j].node)
             /\ \/ calls[j].node \in stack
                \/ ~Open(j)
                \/ level(n) < level(calls[j].node)
  <2>0. calls[j].node \in Nodes
    BY Levels
  <2>1. CASE j = Len(calls)
    <3>1. Top.node \in Models => Top.node \in Top.stack
      BY <1>1 DEF CallStackInv, FramesOK
    <3>2. Top.node \in Unions => ~Open(j)
      BY <1>1, <2>1, SchemasAssumption DEF Open
    <3>3. QED
      BY <1>1, <1>2, <1>3, <2>1, <3>1, <3>2
  <2>2. CASE j # Len(calls)
    <3>1. j \in 1..(Len(calls) - 1)
      BY <1>1, <2>2
    <3>2. /\ level(Top.node) <= level(calls[j].node)
          /\ Top.node \in Unions => level(Top.node) < level(calls[j].node)
          /\ \/ calls[j].node \in Top.stack
             \/ ~Open(j)
             \/ level(Top.node) < level(calls[j].node)
      BY <1>1, <3>1 DEF CallStackInv, ChainOK
    <3>3. QED
      BY <1>1, <1>2, <1>3, <2>0, <3>2
  <2>3. QED
    BY <2>1, <2>2
<1>5. QED
  BY <1>4 DEF MayCall

LEMMA InvInit == (\A s \in Schemas : Stratified(s)) /\ Init => Inv
<1> SUFFICES ASSUME \A s \in Schemas : Stratified(s), Init PROVE Inv
  OBVIOUS
<1>1. TypeOK /\ Stratified(schema) /\ schema \in Schemas
  BY TypeInit DEF Init
<1>2. calls = <<>> /\ Len(calls) = 0
  BY DEF Init
<1>3. ASSUME NEW n \in Nodes
      PROVE  ByValue(n) = {}
  BY DEF Init, ByValue
<1>4. CallStackInv
  <2>1. FramesOK /\ ChainOK /\ VariantsClosed
    BY <1>2 DEF FramesOK, ChainOK, VariantsClosed
  <2>2. EdgesClosed
    BY <1>3 DEF EdgesClosed
  <2>3. QED
    BY <2>1, <2>2 DEF CallStackInv
<1>5. Sized
  BY <1>3 DEF Sized
<1>6. QED
  BY <1>1, <1>4, <1>5 DEF Inv

LEMMA InvStep == Inv /\ [Next]_vars => Inv'
<1> SUFFICES ASSUME Inv, [Next]_vars PROVE Inv'
  OBVIOUS
<1>1. TypeOK'
  BY TypeStep DEF Inv
<1>2. Stratified(schema)'
  <2>1. schema' = schema
    BY DEF Next, VisitRoot, RegisterRoot, VisitProperty, AddField, VisitAddlProps,
           ModelReturns, VisitVariant, AddVariant, FixUpBase, UnionReturns,
           Terminated, GetType, GetModel, GetUnion, vars
  <2>2. QED
    BY <2>1 DEF Inv, Stratified
\* Nothing changes but the roots and what is pushed.
<1>3. ASSUME UNCHANGED <<schema, calls, types, fields>>
      PROVE  (CallStackInv /\ Sized)'
  <2>1. FramesOK' /\ ChainOK' /\ VariantsClosed' /\ Closed \subseteq Closed'
    BY <1>3 DEF Inv, CallStackInv, FramesOK, ChainOK, VariantsClosed, Closed, Open, Refs
  <2>2. QED
    BY <1>3, <2>1, SameFieldsSameEdges, InvSameEdges
<1>4. (CallStackInv /\ Sized)'
  <2>1. CASE VisitRoot
    <3>1. Head(roots) \in Nodes
      BY <2>1 DEF VisitRoot, Inv, TypeOK
    <3>2. MayCall(Head(roots), {})
      BY <2>1 DEF VisitRoot, Active, MayCall
    <3>3. QED
      BY <2>1, <3>1, <3>2, InvNewCall DEF VisitRoot
  <2>2. CASE RegisterRoot
    BY <1>3, <2>2 DEF RegisterRoot
  <2>3. CASE VisitProperty
    <3>1. Pending.to \in Nodes /\ Top.stack \in SUBSET Models
      BY <2>3, PendingRef DEF VisitProperty, InModel, Inv
    <3>2. MayCall(Pending.to, Top.stack)
      BY <2>3, <3>1, TopMayCall DEF VisitProperty, InModel
    <3>3. QED
      BY <2>3, <3>1, <3>2, InvNewCall DEF VisitProperty
  <2>4. CASE AddField
    BY <2>4, InvAddField
  <2>5. CASE VisitAddlProps
    <3>1. PICK n \in schema.addl[Top.node] : GetType(n, {})
      BY <2>5 DEF VisitAddlProps
    <3>2. n \in Nodes /\ Top.node \in Models /\ Active
      BY <2>5 DEF VisitAddlProps, InModel, Inv, TypeOK, WellFormed, Schema
    <3>3. MayCall(n, {})
      BY <3>1, <3>2, TopMayCall
    <3>4. QED
      BY <3>1, <3>2, <3>3, InvNewCall
  <2>6. CASE ModelReturns
    BY <2>6, InvModelReturns
  <2>7. CASE VisitVariant
    <3>1. Pending.to \in Nodes /\ Top.node \notin Models
      BY <2>7, PendingRef, SchemasAssumption DEF VisitVariant, InUnion, Inv
    <3>2. MayCall(Pending.to, {})
      BY <2>7, <3>1, TopMayCall DEF VisitVariant, InUnion
    <3>3. QED
      BY <2>7, <3>1, <3>2, InvNewCall DEF VisitVariant
  <2>8. CASE AddVariant \/ FixUpBase
    BY <2>8, InvAdvanceUnion
  <2>9. CASE UnionReturns
    BY <2>9, InvUnionReturns
  <2>10. CASE UNCHANGED vars
    BY <1>3, <2>10 DEF vars
  <2>11. QED
    BY <2>1, <2>2, <2>3, <2>4, <2>5, <2>6, <2>7, <2>8, <2>9, <2>10
       DEF Next, Terminated
<1>5. QED
  BY <1>1, <1>2, <1>4 DEF Inv

\* On a type graph none of whose cycles passes through a union or through
\* additional properties, every emitted type has a finite size: the boxes that
\* getModelField decides on are enough.
THEOREM SizedTypes ==
    ASSUME \A s \in Schemas : Stratified(s)
    PROVE  Spec => []Sized
<1>1. Init => Inv
  BY InvInit
<1>2. Inv /\ [Next]_vars => Inv'
  BY InvStep
<1>3. Inv => Sized
  BY DEF Inv
<1>4. QED
  BY <1>1, <1>2, <1>3, PTL DEF Spec

\* On such a type graph the cache, the call stack and the model stacks always
\* fit together.
THEOREM CallStackCorrect ==
    ASSUME \A s \in Schemas : Stratified(s)
    PROVE  Spec => []CallStackInv
<1>1. Init => Inv
  BY InvInit
<1>2. Inv /\ [Next]_vars => Inv'
  BY InvStep
<1>3. Inv => CallStackInv
  BY DEF Inv
<1>4. QED
  BY <1>1, <1>2, <1>3, PTL DEF Spec

----------------------------------------------------------------------------
(* The fields of the models, cycles through unions included.               *)

\* The fields of m are its first n properties.
HasFields(m, n) ==
    /\ Len(fields[m]) = n
    /\ \A i \in 1..n : /\ fields[m][i].to = Refs(m)[i].to
                       /\ fields[m][i].heap = Refs(m)[i].heap

\* Between two steps a model has the fields its only call has added, or all of
\* them when no call adapts it.
OneCallPerModel ==
    \A k \in 1..Len(calls) : calls[k].node \in Models =>
        /\ calls[k].node \in types
        /\ HasFields(calls[k].node, calls[k].at - 1)
        /\ \A j \in 1..Len(calls) : calls[j].node = calls[k].node => j = k

Idle(m) == \A k \in 1..Len(calls) : calls[k].node # m

IdleModelsComplete ==
    \A m \in Models : /\ m \in types /\ Idle(m) => HasFields(m, Len(Refs(m)))
                      /\ m \notin types => Len(fields[m]) = 0

\* Everything on the stack of a call leads to the type the call adapts.
StacksReach ==
    \A k \in 1..Len(calls) : \A x \in calls[k].stack :
        x = calls[k].node \/ ReachableFrom(x, calls[k].node)

FieldsInv == /\ TypeOK
             /\ OneCallPerModel /\ IdleModelsComplete
             /\ StacksReach /\ BoxedOnlyOnCycles

----------------------------------------------------------------------------
(* Reachability in the type graph. *)

LEMMA ReachStep ==
    ASSUME NEW x, NEW n, n \in Successors(x)
    PROVE  ReachableFrom(x, n)
BY DEF ReachableFrom

LEMMA ReachTrans ==
    ASSUME NEW x, NEW m \in Nodes, NEW n, ReachableFrom(x, m), n \in Successors(m)
    PROVE  ReachableFrom(x, n)
BY DEF ReachableFrom

LEMMA StepReach ==
    ASSUME NEW x, NEW m \in Nodes, NEW n, m \in Successors(x), ReachableFrom(m, n)
    PROVE  ReachableFrom(x, n)
BY DEF ReachableFrom

\* The pending type of a call is a successor of the call's type.
LEMMA PendingSuccessor ==
    ASSUME TypeOK, Active, ~Finished
    PROVE  Pending.to \in Successors(Top.node)
BY PendingRef, TopFrame DEF Successors

\* A step leaves the type graph as it is.
LEMMA ReachSame ==
    ASSUME schema' = schema
    PROVE  \A x, n : ReachableFrom(x, n)' <=> ReachableFrom(x, n)
BY DEF ReachableFrom, Successors, Refs

----------------------------------------------------------------------------
(* The kinds of step. *)

\* Fields that keep their types and boxes keep everything said of them.
SameShape ==
    \A m \in Models :
        /\ Len(fields'[m]) = Len(fields[m])
        /\ \A i \in 1..Len(fields[m]) : /\ fields'[m][i].to = fields[m][i].to
                                        /\ fields'[m][i].heap = fields[m][i].heap
                                        /\ fields'[m][i].boxed = fields[m][i].boxed

LEMMA FieldLen ==
    ASSUME TypeOK, NEW m \in Models
    PROVE  /\ fields[m] \in Seq(FieldRec)
           /\ Len(fields[m]) \in Nat
           /\ DOMAIN fields[m] = 1..Len(fields[m])
           /\ m \in Nodes /\ Len(Refs(m)) \in Nat
<1>1. fields[m] \in Seq(FieldRec)
  BY DEF TypeOK
<1>2. m \in Nodes
  BY DEF Nodes
<1>3. Refs(m) \in Seq(Ref)
  BY <1>2 DEF TypeOK, WellFormed, Schema, Refs
<1>4. QED
  BY <1>1, <1>2, <1>3

LEMMA SameShapeFields ==
    ASSUME TypeOK, SameShape, schema' = schema
    PROVE  \A m \in Models : \A n \in Nat : HasFields(m, n) => HasFields(m, n)'
<1> TAKE m \in Models
<1> TAKE n \in Nat
<1> HAVE HasFields(m, n)
<1>1. QED
  BY DEF HasFields, SameShape, Refs

LEMMA SameShapeBoxes ==
    ASSUME TypeOK, TypeOK', SameShape, schema' = schema, BoxedOnlyOnCycles
    PROVE  BoxedOnlyOnCycles'
<1> SUFFICES ASSUME NEW m \in Models, NEW i \in DOMAIN fields'[m],
                    fields'[m][i].boxed, NEW t, t = fields'[m][i].to
             PROVE  ReachableFrom(t, m)'
  BY DEF BoxedOnlyOnCycles
<1>1. DOMAIN fields'[m] = 1..Len(fields'[m])
  BY DEF TypeOK
<1>2. i \in 1..Len(fields[m]) /\ DOMAIN fields[m] = 1..Len(fields[m])
  BY <1>1, FieldLen DEF SameShape
<1>3. fields[m][i].boxed /\ fields[m][i].to = t
  BY <1>2 DEF SameShape
<1>4. ReachableFrom(t, m)
  BY <1>2, <1>3 DEF BoxedOnlyOnCycles
<1>5. QED
  BY <1>4, ReachSame

\* A call for n: nobody adapts n yet, and the stack it gets leads to n.
LEMMA NewCallFields ==
    ASSUME FieldsInv, NEW n \in Nodes, NEW stack \in SUBSET Models, GetType(n, stack),
           \A x \in stack : ReachableFrom(x, n)
    PROVE  (OneCallPerModel /\ IdleModelsComplete /\ StacksReach)'
<1> USE DEF FieldsInv
<1>1. /\ n \notin types
      /\ types' = IF n \in Models THEN types \cup {n} ELSE types
      /\ schema' = schema /\ fields' = fields
      /\ Len(calls) \in Nat
      /\ Len(calls') = Len(calls) + 1
      /\ \A k \in 1..Len(calls) : calls'[k] = calls[k]
      /\ calls'[Len(calls) + 1] = NewFrame(n, stack)
  BY NewCall
<1>2. /\ NewFrame(n, stack).node = n
      /\ NewFrame(n, stack).at = 1
      /\ NewFrame(n, stack).stack = IF n \in Models THEN stack \cup {n} ELSE {}
  BY DEF NewFrame
<1>3. \A k \in 1..Len(calls') :
         \/ k \in 1..Len(calls) /\ calls'[k] = calls[k]
         \/ k = Len(calls) + 1 /\ calls'[k] = NewFrame(n, stack)
  BY <1>1
<1>4. \A m, c : HasFields(m, c)' <=> HasFields(m, c)
  BY <1>1 DEF HasFields, Refs
<1>5. n \in Models => HasFields(n, 0) /\ \A k \in 1..Len(calls) : calls[k].node # n
  BY <1>1 DEF IdleModelsComplete, OneCallPerModel, HasFields
<1>6. OneCallPerModel'
  <2> SUFFICES ASSUME NEW k \in 1..Len(calls'), NEW m \in Models, m = calls'[k].node,
                      NEW c, c = calls'[k].at - 1
               PROVE  /\ m \in types'
                      /\ HasFields(m, c)'
                      /\ \A j \in 1..Len(calls') : calls'[j].node = m => j = k
    BY DEF OneCallPerModel
  <2>1. CASE k \in 1..Len(calls) /\ calls'[k] = calls[k]
    <3>1. /\ m \in types
          /\ HasFields(m, c)
          /\ \A j \in 1..Len(calls) : calls[j].node = m => j = k
      BY <2>1 DEF OneCallPerModel
    <3>2. m # n
      BY <1>1, <3>1
    <3>3. QED
      BY <1>1, <1>2, <1>3, <1>4, <3>1, <3>2
  <2>2. CASE k = Len(calls) + 1 /\ calls'[k] = NewFrame(n, stack)
    BY <1>1, <1>2, <1>3, <1>4, <1>5, <2>2
  <2>3. QED
    BY <1>3, <2>1, <2>2
<1>7. IdleModelsComplete'
  <2> SUFFICES ASSUME NEW m \in Models
               PROVE  /\ m \in types' /\ Idle(m)' => HasFields(m, Len(Refs(m)))'
                      /\ m \notin types' => Len(fields'[m]) = 0
    BY DEF IdleModelsComplete
  <2>1. Idle(m)' => m # n /\ Idle(m)
    BY <1>1, <1>2 DEF Idle
  <2>2. Len(Refs(m))' = Len(Refs(m))
    BY <1>1 DEF Refs
  <2>3. HasFields(m, Len(Refs(m))) => HasFields(m, Len(Refs(m)))'
    BY <1>1, <2>2 DEF HasFields, Refs
  <2>4. QED
    BY <1>1, <2>1, <2>3 DEF IdleModelsComplete
<1>8. StacksReach'
  <2> SUFFICES ASSUME NEW k \in 1..Len(calls'), NEW x \in calls'[k].stack,
                      NEW m, m = calls'[k].node
               PROVE  x = m \/ ReachableFrom(x, m)'
    BY DEF StacksReach
  <2>1. CASE k \in 1..Len(calls) /\ calls'[k] = calls[k]
    BY <1>1, <2>1, ReachSame DEF StacksReach
  <2>2. CASE k = Len(calls) + 1 /\ calls'[k] = NewFrame(n, stack)
    BY <1>1, <1>2, <2>2, ReachSame
  <2>3. QED
    BY <1>3, <2>1, <2>2
<1>9. QED
  BY <1>6, <1>7, <1>8

\* The top call, of a union, moves on: no field's type changes.
LEMMA AdvanceUnionFields ==
    ASSUME FieldsInv, InUnion, ~Finished, Advance, SameShape, UNCHANGED <<schema, types>>
    PROVE  (OneCallPerModel /\ IdleModelsComplete /\ StacksReach)'
<1> USE DEF FieldsInv
<1>1. /\ Len(calls) \in Nat
      /\ Len(calls') = Len(calls)
      /\ \A k \in 1..(Len(calls) - 1) : calls'[k] = calls[k]
      /\ calls'[Len(calls)] = Advanced(Top)
      /\ Advanced(Top).node = Top.node /\ Advanced(Top).stack = Top.stack
      /\ Top = calls[Len(calls)] /\ Top.node \notin Models
  BY AdvancedTop, TopFrame, SchemasAssumption DEF InUnion
<1>2. \A k \in 1..Len(calls') :
         /\ k \in 1..Len(calls)
         /\ calls'[k].node = calls[k].node
         /\ calls'[k].stack = calls[k].stack
         /\ calls[k].node \in Models => calls'[k] = calls[k]
  BY <1>1
<1>3. \A k \in 1..Len(calls) : calls[k].node \in Models => calls[k].at - 1 \in Nat
  <2>1. \A k \in 1..Len(calls) : calls[k] \in Frame
    BY ElementOfSeq DEF TypeOK
  <2>2. QED
    BY <2>1 DEF Frame
<1>4. OneCallPerModel'
  <2> SUFFICES ASSUME NEW k \in 1..Len(calls'), NEW m \in Models, m = calls'[k].node,
                      NEW c, c = calls'[k].at - 1
               PROVE  /\ m \in types'
                      /\ HasFields(m, c)'
                      /\ \A j \in 1..Len(calls') : calls'[j].node = m => j = k
    BY DEF OneCallPerModel
  <2>1. /\ m \in types /\ HasFields(m, c) /\ c \in Nat
        /\ \A j \in 1..Len(calls) : calls[j].node = m => j = k
    BY <1>2, <1>3 DEF OneCallPerModel
  <2>2. QED
    BY <1>2, <2>1, SameShapeFields
<1>5. IdleModelsComplete'
  <2> SUFFICES ASSUME NEW m \in Models
               PROVE  /\ m \in types' /\ Idle(m)' => HasFields(m, Len(Refs(m)))'
                      /\ m \notin types' => Len(fields'[m]) = 0
    BY DEF IdleModelsComplete
  <2>1. Idle(m)' => Idle(m)
    BY <1>1 DEF Idle
  <2>2. Refs(m)' = Refs(m) /\ Len(Refs(m)) \in Nat
    BY FieldLen DEF Refs
  <2>3. HasFields(m, Len(Refs(m))) => HasFields(m, Len(Refs(m)))'
    BY <2>2 DEF HasFields, SameShape
  <2>4. Len(fields'[m]) = Len(fields[m])
    BY DEF SameShape
  <2>5. QED
    BY <2>1, <2>3, <2>4 DEF IdleModelsComplete
<1>6. StacksReach'
  <2> SUFFICES ASSUME NEW k \in 1..Len(calls'), NEW x \in calls'[k].stack,
                      NEW m, m = calls'[k].node
               PROVE  x = m \/ ReachableFrom(x, m)'
    BY DEF StacksReach
  <2>1. x = m \/ ReachableFrom(x, m)
    BY <1>2 DEF StacksReach
  <2>2. QED
    BY <2>1, ReachSame
<1>7. QED
  BY <1>4, <1>5, <1>6

\* A field that getModelField boxes leads back to the model it is for.
LEMMA BoxReaches ==
    ASSUME FieldsInv, InModel, ~Finished, FieldNeedsBoxing(Pending, Top.stack)
    PROVE  ReachableFrom(Pending.to, Top.node)
<1> USE DEF FieldsInv
<1> DEFINE t == Pending.to
           m == Top.node
<1>1. /\ t \in Successors(m) /\ t \in Nodes /\ m \in Nodes
      /\ Top = calls[Len(calls)] /\ Len(calls) \in 1..Len(calls)
  BY PendingSuccessor, PendingRef, TopFrame DEF InModel
<1>2. \A x \in Top.stack : x = m \/ ReachableFrom(x, m)
  BY <1>1 DEF StacksReach
<1> HIDE DEF t, m
<1>3. CASE t \in Top.stack
  BY <1>1, <1>2, <1>3, ReachStep DEF t, m
<1>4. CASE t \in Unions /\ \E i \in DOMAIN Refs(t) : Refs(t)[i].to \in Top.stack
  <2>1. PICK i \in DOMAIN Refs(t) : Refs(t)[i].to \in Top.stack
    BY <1>4
  <2> DEFINE x == Refs(t)[i].to
  <2>2. x \in Successors(t) /\ x \in Top.stack
    BY <2>1 DEF Successors
  <2>3. x \in Nodes
    BY <2>2, PendingRef DEF InModel, Nodes
  <2> HIDE DEF x
  <2>4. CASE x = m
    BY <2>2, <2>4, ReachStep DEF t, m
  <2>5. CASE x # m
    BY <1>2, <2>2, <2>3, <2>5, StepReach DEF t, m
  <2>6. QED
    BY <2>4, <2>5
<1>5. QED
  BY <1>3, <1>4 DEF FieldNeedsBoxing, t

\* getModelField's answer is added to the model of the top call.
LEMMA AddFieldFields ==
    ASSUME FieldsInv, TypeOK', AddField
    PROVE  FieldsInv'
<1> USE DEF FieldsInv
<1> DEFINE f == Field(Pending, FieldNeedsBoxing(Pending, Top.stack))
<1>0. PICK m \in Models : m = Top.node
  BY DEF AddField, InModel
<1>1. /\ Active /\ ~Finished /\ Advance /\ UNCHANGED <<schema, types>>
      /\ fields' = [fields EXCEPT ![m] = Append(@, f)]
  BY <1>0 DEF AddField, InModel
<1>2. /\ Len(calls) \in 1..Len(calls)
      /\ Len(calls') = Len(calls)
      /\ \A k \in 1..(Len(calls) - 1) : calls'[k] = calls[k]
      /\ calls'[Len(calls)].node = m
      /\ calls'[Len(calls)].stack = Top.stack
      /\ calls'[Len(calls)].at = Top.at + 1
      /\ Top = calls[Len(calls)]
      /\ Top.at \in 1..Len(Refs(m)) /\ Len(Refs(m)) \in Nat
      /\ Pending = Refs(m)[Top.at]
  BY <1>0, <1>1, AdvancedTop, TopFrame, PendingRef
<1>3. \A k \in 1..Len(calls') : /\ k \in 1..Len(calls)
                                /\ calls'[k].node = calls[k].node
                                /\ calls'[k].stack = calls[k].stack
                                /\ k # Len(calls) => calls'[k] = calls[k]
  BY <1>0, <1>2
<1>4. /\ \A j \in 1..Len(calls) : calls[j].node = m => j = Len(calls)
      /\ m \in types
      /\ HasFields(m, Top.at - 1)
  BY <1>0, <1>2 DEF OneCallPerModel
<1>5. \A n \in Models : n # m => fields'[n] = fields[n]
  BY <1>1 DEF TypeOK
<1>6. \A n \in Models : n # m => \A c : HasFields(n, c) => HasFields(n, c)'
  BY <1>1, <1>5 DEF HasFields, Refs
<1>7. f.to = Pending.to /\ f.heap = Pending.heap
      /\ f.boxed = FieldNeedsBoxing(Pending, Top.stack)
  BY DEF Field
<1> HIDE DEF f
<1>8. /\ Len(fields[m]) = Top.at - 1
      /\ Len(fields'[m]) = Top.at
      /\ DOMAIN fields'[m] = 1..Top.at
      /\ DOMAIN fields[m] = 1..(Top.at - 1)
      /\ \A i \in 1..(Top.at - 1) : fields'[m][i] = fields[m][i]
      /\ fields'[m][Top.at] = f
  <2>1. fields'[m] = Append(fields[m], f) /\ fields[m] \in Seq(FieldRec)
    BY <1>1 DEF TypeOK
  <2>2. Len(fields[m]) = Top.at - 1
    BY <1>4 DEF HasFields
  <2>3. QED
    BY <1>2, <2>1, <2>2
<1>9. ASSUME NEW c, c = Top.at
      PROVE  HasFields(m, c)'
  BY <1>1, <1>2, <1>4, <1>7, <1>8, <1>9 DEF HasFields, Refs
<1>10. OneCallPerModel'
  <2> SUFFICES ASSUME NEW k \in 1..Len(calls'), NEW n \in Models, n = calls'[k].node,
                      NEW c, c = calls'[k].at - 1
               PROVE  /\ n \in types'
                      /\ HasFields(n, c)'
                      /\ \A j \in 1..Len(calls') : calls'[j].node = n => j = k
    BY DEF OneCallPerModel
  <2>1. CASE n = m
    <3>1. k = Len(calls)
      BY <1>3, <1>4, <2>1
    <3>2. c = Top.at
      BY <1>2, <3>1
    <3>3. \A j \in 1..Len(calls') : calls'[j].node = n => j = k
      BY <1>3, <1>4, <2>1, <3>1
    <3>4. QED
      BY <1>1, <1>4, <1>9, <2>1, <3>2, <3>3
  <2>2. CASE n # m
    <3>1. k \in 1..Len(calls) /\ calls'[k] = calls[k]
      BY <1>2, <1>3, <2>2
    <3>2. /\ n \in types /\ HasFields(n, c)
          /\ \A j \in 1..Len(calls) : calls[j].node = n => j = k
      BY <3>1 DEF OneCallPerModel
    <3>3. QED
      BY <1>1, <1>3, <1>6, <2>2, <3>1, <3>2
  <2>3. QED
    BY <2>1, <2>2
<1>11. IdleModelsComplete'
  <2> SUFFICES ASSUME NEW n \in Models
               PROVE  /\ n \in types' /\ Idle(n)' => HasFields(n, Len(Refs(n)))'
                      /\ n \notin types' => Len(fields'[n]) = 0
    BY DEF IdleModelsComplete
  <2>1. ~Idle(m)'
    BY <1>2 DEF Idle
  <2>2. Idle(n)' => Idle(n)
    BY <1>2, <1>3 DEF Idle
  <2>3. n # m /\ HasFields(n, Len(Refs(n))) => HasFields(n, Len(Refs(n)))'
    BY <1>1, <1>5 DEF HasFields, Refs
  <2>4. QED
    BY <1>1, <1>4, <1>5, <2>1, <2>2, <2>3 DEF IdleModelsComplete
<1>12. StacksReach'
  <2> SUFFICES ASSUME NEW k \in 1..Len(calls'), NEW x \in calls'[k].stack,
                      NEW n, n = calls'[k].node
               PROVE  x = n \/ ReachableFrom(x, n)'
    BY DEF StacksReach
  <2>1. x = n \/ ReachableFrom(x, n)
    BY <1>3 DEF StacksReach
  <2>2. QED
    BY <1>1, <2>1, ReachSame
<1>13. BoxedOnlyOnCycles'
  <2> SUFFICES ASSUME NEW n \in Models, NEW i \in DOMAIN fields'[n],
                      fields'[n][i].boxed, NEW t, t = fields'[n][i].to
               PROVE  ReachableFrom(t, n)'
    BY DEF BoxedOnlyOnCycles
  <2>1. CASE n # m
    BY <1>1, <1>5, <2>1, ReachSame DEF BoxedOnlyOnCycles
  <2>2. CASE n = m /\ i # Top.at
    <3>0. i \in 1..Top.at /\ i # Top.at /\ Top.at \in Nat
      BY <1>2, <1>8, <2>2
    <3>1. i \in DOMAIN fields[m] /\ fields'[m][i] = fields[m][i]
      BY <1>8, <3>0
    <3>2. QED
      BY <1>1, <2>2, <3>1, ReachSame DEF BoxedOnlyOnCycles
  <2>3. CASE n = m /\ i = Top.at
    <3>1. t = Pending.to /\ FieldNeedsBoxing(Pending, Top.stack)
      BY <1>7, <1>8, <2>3
    <3>2. ReachableFrom(t, m)
      BY <1>0, <3>1, BoxReaches DEF AddField
    <3>3. QED
      BY <1>1, <2>3, <3>2, ReachSame
  <2>4. QED
    BY <2>1, <2>2, <2>3
<1>14. QED
  BY <1>10, <1>11, <1>12, <1>13

\* The top call returns: a model has got all of its fields by then.
LEMMA ReturnFields ==
    ASSUME FieldsInv, Active, Finished, Return, UNCHANGED <<schema, fields>>,
           types' = types \/ (Top.node \in Unions /\ types' = types \cup {Top.node})
    PROVE  (OneCallPerModel /\ IdleModelsComplete /\ StacksReach)'
<1> USE DEF FieldsInv
<1>1. /\ Len(calls) \in 1..Len(calls)
      /\ Len(calls') = Len(calls) - 1
      /\ \A k \in 1..(Len(calls) - 1) : calls'[k] = calls[k]
      /\ Top = calls[Len(calls)]
      /\ Len(Refs(Top.node)) \in Nat
  BY PoppedTop, TopFrame
<1>2. \A k \in 1..Len(calls') : k \in 1..Len(calls) /\ calls'[k] = calls[k]
  BY <1>1
<1>3. \A m, c : HasFields(m, c)' <=> HasFields(m, c)
  BY DEF HasFields, Refs
<1>4. \A m \in Models : m \in types' <=> m \in types
  BY SchemasAssumption
<1>5. OneCallPerModel'
  <2> SUFFICES ASSUME NEW k \in 1..Len(calls'), NEW m \in Models, m = calls'[k].node,
                      NEW c, c = calls'[k].at - 1
               PROVE  /\ m \in types'
                      /\ HasFields(m, c)'
                      /\ \A j \in 1..Len(calls') : calls'[j].node = m => j = k
    BY DEF OneCallPerModel
  <2>1. QED
    BY <1>2, <1>3, <1>4 DEF OneCallPerModel
<1>6. IdleModelsComplete'
  <2> SUFFICES ASSUME NEW m \in Models, NEW n, n = Len(Refs(m))
               PROVE  /\ m \in types' /\ Idle(m)' => HasFields(m, n)'
                      /\ m \notin types' => Len(fields'[m]) = 0
    BY DEF IdleModelsComplete, Refs
  <2>1. CASE m = Top.node
    <3>1. m \in types /\ HasFields(m, n)
      BY <1>1, <2>1 DEF OneCallPerModel, Finished
    <3>2. QED
      BY <1>3, <1>4, <3>1
  <2>2. CASE m # Top.node
    <3>1. Idle(m)' => Idle(m)
      BY <1>1, <2>2 DEF Idle
    <3>2. QED
      BY <1>3, <1>4, <3>1 DEF IdleModelsComplete
  <2>3. QED
    BY <2>1, <2>2
<1>7. StacksReach'
  <2> SUFFICES ASSUME NEW k \in 1..Len(calls'), NEW x \in calls'[k].stack,
                      NEW m, m = calls'[k].node
               PROVE  x = m \/ ReachableFrom(x, m)'
    BY DEF StacksReach
  <2>1. QED
    BY <1>2, ReachSame DEF StacksReach
<1>8. QED
  BY <1>5, <1>6, <1>7

----------------------------------------------------------------------------
LEMMA FieldsInit == Init => FieldsInv
<1> SUFFICES ASSUME Init PROVE FieldsInv
  OBVIOUS
<1>1. TypeOK
  BY TypeInit
<1>2. Len(calls) = 0 /\ types = {} /\ \A m \in Models : fields[m] = <<>>
  BY DEF Init
<1>3. QED
  BY <1>1, <1>2 DEF FieldsInv, OneCallPerModel, IdleModelsComplete, StacksReach,
                    BoxedOnlyOnCycles

LEMMA FixUpSameShape ==
    ASSUME TypeOK, FixUpBase
    PROVE  SameShape
<1> SUFFICES ASSUME NEW n \in Models
             PROVE  /\ Len(fields'[n]) = Len(fields[n])
                    /\ \A i \in 1..Len(fields[n]) :
                          /\ fields'[n][i].to = fields[n][i].to
                          /\ fields'[n][i].heap = fields[n][i].heap
                          /\ fields'[n][i].boxed = fields[n][i].boxed
  BY DEF SameShape
<1>1. fields[n] \in Seq(FieldRec) /\ DOMAIN fields[n] = 1..Len(fields[n])
      /\ Len(fields[n]) \in Nat
  BY FieldLen
<1>2. CASE fields'[n] = fields[n]
  BY <1>2
<1>3. CASE fields'[n] = [i \in DOMAIN fields[n] |-> [fields[n][i] EXCEPT !.ref = TRUE]]
  <2>1. Len(fields'[n]) = Len(fields[n])
    BY <1>1, <1>3
  <2>2. ASSUME NEW i \in 1..Len(fields[n])
        PROVE  /\ fields'[n][i].to = fields[n][i].to
               /\ fields'[n][i].heap = fields[n][i].heap
               /\ fields'[n][i].boxed = fields[n][i].boxed
    <3>1. fields[n][i] \in FieldRec
      BY <1>1
    <3>2. QED
      BY <1>1, <1>3, <3>1 DEF FieldRec
  <2>3. QED
    BY <2>1, <2>2
<1>4. QED
  <2>1. \/ fields' = fields
        \/ fields' = [fields EXCEPT ![Pending.to] =
                        [i \in DOMAIN @ |-> [@[i] EXCEPT !.ref = TRUE]]]
    BY DEF FixUpBase
  <2>2. fields \in [Models -> Seq(FieldRec)]
    BY DEF TypeOK
  <2>3. QED
    BY <1>2, <1>3, <2>1, <2>2

\* Every action preserves the invariant.
LEMMA FieldsStep == FieldsInv /\ [Next]_vars => FieldsInv'
<1> SUFFICES ASSUME FieldsInv, [Next]_vars PROVE FieldsInv'
  OBVIOUS
<1>1. TypeOK'
  BY TypeStep DEF FieldsInv
<1>2. ASSUME UNCHANGED <<schema, fields>>
      PROVE  BoxedOnlyOnCycles'
  <2>1. SameShape
    BY <1>2 DEF SameShape
  <2>2. QED
    BY <1>1, <1>2, <2>1, SameShapeBoxes DEF FieldsInv
<1>3. ASSUME NEW n \in Nodes, NEW stack \in SUBSET Models, GetType(n, stack),
             \A x \in stack : ReachableFrom(x, n)
      PROVE  FieldsInv'
  <2>1. UNCHANGED <<schema, fields>>
    BY <1>3, NewCall DEF FieldsInv
  <2>2. QED
    BY <1>1, <1>2, <1>3, <2>1, NewCallFields DEF FieldsInv
<1>4. CASE VisitRoot
  <2>1. Head(roots) \in Nodes
    BY <1>4 DEF VisitRoot, FieldsInv, TypeOK
  <2>2. QED
    BY <1>3, <1>4, <2>1 DEF VisitRoot
<1>5. CASE RegisterRoot \/ UNCHANGED vars
  <2>1. UNCHANGED <<schema, calls, types, fields>>
    BY <1>5 DEF RegisterRoot, vars
  <2>2. QED
    BY <1>1, <2>1 DEF FieldsInv, OneCallPerModel, IdleModelsComplete, StacksReach,
                      BoxedOnlyOnCycles, HasFields, Idle, ReachableFrom, Successors, Refs
<1>6. CASE VisitProperty
  <2>1. /\ Pending.to \in Nodes /\ Top.stack \in SUBSET Models
        /\ Pending.to \in Successors(Top.node) /\ Top.node \in Nodes
        /\ Top = calls[Len(calls)] /\ Len(calls) \in 1..Len(calls)
    BY <1>6, PendingRef, PendingSuccessor, TopFrame DEF VisitProperty, InModel, FieldsInv
  <2>2. ASSUME NEW x \in Top.stack
        PROVE  ReachableFrom(x, Pending.to)
    <3>1. x = Top.node \/ ReachableFrom(x, Top.node)
      BY <2>1 DEF FieldsInv, StacksReach
    <3>2. QED
      BY <2>1, <3>1, ReachStep, ReachTrans
  <2>3. QED
    BY <1>3, <1>6, <2>1, <2>2 DEF VisitProperty
<1>7. CASE AddField
  BY <1>1, <1>7, AddFieldFields
<1>8. CASE VisitAddlProps
  <2>1. schema.addl[Top.node] \in SUBSET Nodes
    BY <1>8 DEF VisitAddlProps, InModel, FieldsInv, TypeOK, WellFormed, Schema
  <2>2. QED
    BY <1>3, <1>8, <2>1 DEF VisitAddlProps
<1>9. CASE ModelReturns
  BY <1>1, <1>2, <1>9, ReturnFields DEF ModelReturns, InModel, FieldsInv
<1>10. CASE VisitVariant
  <2>1. Pending.to \in Nodes
    BY <1>10, PendingRef DEF VisitVariant, InUnion, FieldsInv
  <2>2. QED
    BY <1>3, <1>10, <2>1 DEF VisitVariant
<1>11. CASE AddVariant
  <2>1. SameShape
    BY <1>11 DEF AddVariant, SameShape
  <2>2. QED
    BY <1>1, <1>2, <1>11, <2>1, AdvanceUnionFields DEF AddVariant, FieldsInv
<1>12. CASE FixUpBase
  <2>1. SameShape
    BY <1>12, FixUpSameShape DEF FieldsInv
  <2>2. BoxedOnlyOnCycles'
    BY <1>1, <1>12, <2>1, SameShapeBoxes DEF FieldsInv, FixUpBase
  <2>3. QED
    BY <1>1, <1>12, <2>1, <2>2, AdvanceUnionFields DEF FixUpBase, FieldsInv
<1>13. CASE UnionReturns
  BY <1>1, <1>2, <1>13, ReturnFields DEF UnionReturns, InUnion, FieldsInv
<1>14. QED
  BY <1>4, <1>5, <1>6, <1>7, <1>8, <1>9, <1>10, <1>11, <1>12, <1>13
     DEF Next, Terminated

LEMMA FieldsInvariant == Spec => []FieldsInv
BY FieldsInit, FieldsStep, PTL DEF Spec

\* Whatever the type graph, a box is spent only on a field whose type leads
\* back to the model that has it: what fieldNeedsBoxing finds on the stack or
\* among the members of a union are types the model is reached from.
THEOREM BoxesOnCycles == Spec => []BoxedOnlyOnCycles
<1>1. FieldsInv => BoxedOnlyOnCycles
  BY DEF FieldsInv
<1>2. QED
  BY <1>1, FieldsInvariant, PTL

LEMMA InvComplete == FieldsInv => CachedModelsComplete
<1> DEFINE CallsOf(m) == {k \in 1..Len(calls) : calls[k].node = m}
           Visited(m) == IF CallsOf(m) = {} THEN Len(Refs(m))
                         ELSE calls[CHOOSE k \in CallsOf(m) : TRUE].at - 1
<1>1. ASSUME FieldsInv, NEW m \in types \cap Models
      PROVE  HasFields(m, Visited(m))
  <2>1. CASE CallsOf(m) = {}
    <3>1. Visited(m) = Len(Refs(m))
      BY <2>1
    <3>2. HasFields(m, Len(Refs(m)))
      BY <1>1, <2>1 DEF FieldsInv, IdleModelsComplete, Idle
    <3>3. QED
      BY <3>1, <3>2
  <2>2. CASE CallsOf(m) # {}
    <3>1. PICK k \in CallsOf(m) : k = CHOOSE j \in CallsOf(m) : TRUE
      BY <2>2
    <3>2. Visited(m) = calls[k].at - 1
      BY <2>2, <3>1
    <3>3. HasFields(m, calls[k].at - 1)
      BY <1>1 DEF FieldsInv, OneCallPerModel
    <3>4. QED
      BY <3>2, <3>3
  <2>3. QED
    BY <2>1, <2>2
<1>2. SUFFICES ASSUME FieldsInv
               PROVE  \A m \in types \cap Models : HasFields(m, Visited(m))
  BY DEF CachedModelsComplete, HasFields
<1>3. QED
  BY <1>1, <1>2

\* Whatever the type graph, a model met half finished in the cache by a
\* recursive call is completed by the one call that adapts it: when no call
\* does, it has all of its fields, each with the type of its property.
THEOREM ModelsComplete == Spec => []CachedModelsComplete
BY FieldsInvariant, InvComplete, PTL

----------------------------------------------------------------------------
(* What is pushed into the modules: nothing twice, nothing missing, and    *)
(* the models Unknown<Name> only once all of their fields are references.  *)

(* Nothing is missing: cycles through unions included. *)

\* Why a type is visited: it is listed, or it registers itself.
Known(n) == IsRoot(schema, n) \/ Untagged(schema, n)

\* u has been called, or is cached.
Met(u) == u \in types \/ \E k \in 1..Len(calls) : calls[k].node = u

\* The model n is the Unknown<Name> of a union met before.
MetBase(n) == \E u \in Unions : /\ schema.kind[u] = "extensible" /\ BaseOf(schema, u) = n
                                /\ Met(u)

TypesKnown == /\ \A n \in types : Known(n) \/ MetBase(n)
              /\ \A k \in 1..Len(calls) : calls[k].node \in Unions => Known(calls[k].node)

\* What is listed is still to come, or has been pushed.
RootsPushed ==
    /\ \A i \in 1..Len(roots) : IsRoot(schema, roots[i])
    /\ \A n \in Nodes : IsRoot(schema, n) /\ ~Untagged(schema, n) =>
          pushed[n] >= 1 \/ \E i \in 1..Len(roots) : roots[i] = n

UntaggedPushed == \A n \in types : Untagged(schema, n) => pushed[n] >= 1

\* The model Unknown<Name> of u has been seen.
Seen(u) == u \in types \/ \E k \in 1..Len(calls) : calls[k].node = u /\ calls[k].at > 1

BasesPushed ==
    \A u \in Unions : schema.kind[u] = "extensible" /\ Seen(u) => pushed[BaseOf(schema, u)] >= 1

\* A call has cached what its references up to now lead to.
RefsCached ==
    /\ \A n \in types : Successors(n) \subseteq types \/ \E k \in 1..Len(calls) : calls[k].node = n
    /\ \A k \in 1..Len(calls) : \A i \in 1..(calls[k].at - 1) : Refs(calls[k].node)[i].to \in types

NothingLost == /\ TypeOK /\ Listed(schema)
               /\ TypesKnown /\ RootsPushed /\ UntaggedPushed /\ BasesPushed /\ RefsCached

LostInv == TypesKnown /\ RootsPushed /\ UntaggedPushed /\ BasesPushed /\ RefsCached

\* What has been pushed stays pushed.
StillPushed == \A n \in Nodes : pushed[n] >= 1 => pushed'[n] >= 1

LEMMA LostInit == (\A s \in Schemas : Listed(s)) /\ Init => NothingLost
<1> SUFFICES ASSUME \A s \in Schemas : Listed(s), Init PROVE NothingLost
  OBVIOUS
<1>1. TypeOK /\ Listed(schema)
  BY TypeInit DEF Init
<1>2. Len(calls) = 0 /\ types = {} /\ roots = schema.roots
  BY DEF Init
<1>3. RootsPushed
  <2>1. DOMAIN roots = 1..Len(roots)
    BY <1>1 DEF TypeOK
  <2>2. QED
    BY <1>2, <2>1 DEF RootsPushed, IsRoot
<1>4. TypesKnown /\ UntaggedPushed /\ BasesPushed /\ RefsCached
  BY <1>2 DEF TypesKnown, UntaggedPushed, BasesPushed, Seen, RefsCached
<1>5. QED
  BY <1>1, <1>3, <1>4 DEF NothingLost

\* The type of a reference may be visited.
LEMMA PendingKnown ==
    ASSUME NothingLost, Active, ~Finished
    PROVE  Known(Pending.to) \/ (Pending.to \in Models /\ MetBase(Pending.to))
<1>1. /\ Top.at \in DOMAIN schema.refs[Top.node]
      /\ Top.node \in Nodes
      /\ Pending.to = schema.refs[Top.node][Top.at].to
      /\ Len(calls) \in 1..Len(calls) /\ Top = calls[Len(calls)]
  BY PendingRef, TopFrame DEF NothingLost, Refs
<1>2. \/ Known(Pending.to)
      \/ Top.node \in Unions /\ schema.kind[Top.node] = "extensible" /\ Top.at = 1
  BY <1>1 DEF NothingLost, Listed, Known
<1>3. ASSUME Top.node \in Unions, schema.kind[Top.node] = "extensible", Top.at = 1
      PROVE  Pending.to \in Models /\ MetBase(Pending.to)
  <2>1. Pending.to = BaseOf(schema, Top.node) /\ Met(Top.node)
    BY <1>1, <1>3 DEF BaseOf, Met
  <2>2. Pending.to \in Models
    BY <1>1, <1>3 DEF NothingLost, TypeOK, WellFormed
  <2>3. QED
    BY <1>3, <2>1, <2>2 DEF MetBase
<1>4. QED
  BY <1>2, <1>3

LEMMA LostNewCall ==
    ASSUME NothingLost, NEW n \in Nodes, NEW stack \in SUBSET Models, GetType(n, stack),
           Known(n) \/ (n \in Models /\ MetBase(n))
    PROVE  LostInv'
<1> USE DEF NothingLost
<1>1. /\ types' = IF n \in Models THEN types \cup {n} ELSE types
      /\ UNCHANGED <<schema, roots, fields, pushed>>
      /\ Len(calls) \in Nat
      /\ Len(calls') = Len(calls) + 1
      /\ \A k \in 1..Len(calls) : calls'[k] = calls[k]
      /\ calls'[Len(calls) + 1] = NewFrame(n, stack)
  BY NewCall
<1>2. NewFrame(n, stack).node = n /\ NewFrame(n, stack).at = 1
  BY DEF NewFrame
<1>3. ASSUME NEW k \in 1..Len(calls')
      PROVE  \/ k \in 1..Len(calls) /\ calls'[k] = calls[k]
             \/ k = Len(calls) + 1 /\ calls'[k].node = n /\ calls'[k].at = 1
  BY <1>1, <1>2
<1>4. ASSUME NEW k \in 1..Len(calls)
      PROVE  k \in 1..Len(calls') /\ calls'[k] = calls[k]
  BY <1>1
<1>5. \A x : Known(x)' <=> Known(x)
  BY <1>1 DEF Known, IsRoot, Untagged
<1>6. ASSUME NEW x, MetBase(x)
      PROVE  MetBase(x)'
  BY <1>1, <1>4, <1>6 DEF MetBase, BaseOf, Met
<1>7. TypesKnown'
  <2>1. ASSUME NEW x \in types'
        PROVE  Known(x)' \/ MetBase(x)'
    BY <1>1, <1>5, <1>6 DEF TypesKnown
  <2>2. ASSUME NEW k \in 1..Len(calls'), calls'[k].node \in Unions
        PROVE  Known(calls[k].node)'
    BY <1>3, <1>5, <2>2, SchemasAssumption DEF TypesKnown
  <2>3. QED
    BY <1>1, <2>1, <2>2 DEF TypesKnown
<1>8. RootsPushed'
  BY <1>1 DEF RootsPushed, IsRoot, Untagged
<1>9. UntaggedPushed'
  BY <1>1, SchemasAssumption DEF UntaggedPushed, Untagged
<1>10. BasesPushed'
  <2>1. ASSUME NEW u \in Unions, Seen(u)'
        PROVE  Seen(u)
    <3>1. u \in types' => u \in types
      BY <1>1, SchemasAssumption
    <3>2. ASSUME NEW k \in 1..Len(calls'), calls'[k].node = u, calls'[k].at > 1
          PROVE  Seen(u)
      BY <1>3, <3>2 DEF Seen
    <3>3. QED
      BY <2>1, <3>1, <3>2 DEF Seen
  <2>2. QED
    BY <1>1, <2>1 DEF BasesPushed, BaseOf
<1>11. RefsCached'
  <2>1. types \subseteq types'
    BY <1>1
  <2>2. ASSUME NEW x \in types'
        PROVE  \/ Successors(x)' \subseteq types'
               \/ \E k \in 1..Len(calls') : calls'[k].node = x
    <3>1. CASE x \in types
      <4>1. Successors(x)' = Successors(x)
        BY <1>1 DEF Successors, Refs
      <4>2. QED
        BY <1>4, <2>1, <3>1, <4>1 DEF RefsCached
    <3>2. CASE x = n
      BY <1>1, <1>2, <3>2
    <3>3. QED
      BY <1>1, <3>1, <3>2
  <2>3. ASSUME NEW k \in 1..Len(calls'), NEW i \in 1..(calls'[k].at - 1)
        PROVE  schema.refs[calls'[k].node][i].to \in types'
    BY <1>3, <2>1 DEF RefsCached, Refs
  <2>4. QED
    BY <1>1, <2>2, <2>3 DEF RefsCached, Refs
<1>12. QED
  BY <1>7, <1>8, <1>9, <1>10, <1>11 DEF LostInv

\* The top call has used the type of its reference.
LEMMA LostAdvance ==
    ASSUME NothingLost, Active, ~Finished, Advance, UNCHANGED <<schema, roots, types>>,
           Pending.to \in types, StillPushed,
           Top.node \in Unions /\ AtBase => pushed'[Pending.to] >= 1
    PROVE  LostInv'
<1> USE DEF NothingLost
<1>1. /\ Len(calls) \in Nat
      /\ Len(calls) \in 1..Len(calls)
      /\ Len(calls') = Len(calls)
      /\ \A k \in 1..(Len(calls) - 1) : calls'[k] = calls[k]
      /\ Top = calls[Len(calls)]
      /\ calls'[Len(calls)].node = Top.node
      /\ calls'[Len(calls)].at = Top.at + 1
      /\ Top.at \in Nat \ {0}
      /\ Pending = schema.refs[Top.node][Top.at]
  BY AdvancedTop, TopFrame, PendingRef DEF Refs, Frame
<1>2. ASSUME NEW k \in 1..Len(calls)
      PROVE  /\ calls'[k].node = calls[k].node
             /\ \/ calls'[k].at = calls[k].at
                \/ calls[k] = Top /\ calls'[k].at = Top.at + 1
  <2>1. k = Len(calls) \/ k \in 1..(Len(calls) - 1)
    BY <1>1
  <2>2. QED
    BY <1>1, <2>1
<1>3. \A u : Met(u)' <=> Met(u)
  BY <1>1, <1>2 DEF Met
<1>4. TypesKnown'
  BY <1>1, <1>2, <1>3 DEF TypesKnown, Known, IsRoot, Untagged, MetBase, BaseOf
<1>5. RootsPushed'
  BY DEF RootsPushed, IsRoot, Untagged, StillPushed
<1>6. UntaggedPushed'
  BY DEF UntaggedPushed, Untagged, StillPushed, TypeOK
<1>7. BasesPushed'
  <2>1. ASSUME NEW u \in Unions, schema.kind[u] = "extensible", Seen(u)'
        PROVE  pushed'[BaseOf(schema, u)] >= 1
    <3>1. BaseOf(schema, u) \in Nodes
      BY <2>1 DEF TypeOK, WellFormed, BaseOf, Nodes
    <3>2. CASE Seen(u)
      BY <2>1, <3>1, <3>2 DEF BasesPushed, StillPushed
    <3>3. CASE ~Seen(u)
      <4>1. PICK k \in 1..Len(calls) : calls'[k].node = u /\ calls'[k].at > 1
        BY <1>1, <2>1, <3>3 DEF Seen
      <4>2. calls[k] = Top /\ Top.node = u /\ ~(Top.at > 1)
        BY <1>2, <3>3, <4>1 DEF Seen
      <4>3. Top.at = 1
        BY <1>1, <4>2
      <4>4. AtBase /\ Pending.to = BaseOf(schema, u)
        BY <1>1, <2>1, <4>2, <4>3 DEF AtBase, BaseOf
      <4>5. QED
        BY <4>2, <4>4
    <3>4. QED
      BY <3>2, <3>3
  <2>2. QED
    BY <2>1 DEF BasesPushed
<1>8. RefsCached'
  <2>1. ASSUME NEW k \in 1..Len(calls), NEW i \in 1..(calls'[k].at - 1)
        PROVE  schema.refs[calls[k].node][i].to \in types
    <3>1. CASE i \in 1..(calls[k].at - 1)
      BY <3>1 DEF RefsCached, Refs
    <3>2. CASE i \notin 1..(calls[k].at - 1)
      <4>1. calls[k] = Top /\ calls'[k].at = Top.at + 1
        BY <1>2, <3>2
      <4>2. i = Top.at
        BY <1>1, <3>2, <4>1
      <4>3. QED
        BY <1>1, <4>1, <4>2
    <3>3. QED
      BY <3>1, <3>2
  <2>2. ASSUME NEW x \in types
        PROVE  \/ Successors(x)' \subseteq types
               \/ \E k \in 1..Len(calls') : calls'[k].node = x
    <3>1. Successors(x)' = Successors(x)
      BY DEF Successors, Refs
    <3>2. QED
      BY <1>1, <1>2, <3>1 DEF RefsCached
  <2>3. \A k \in 1..Len(calls') : \A i \in 1..(calls'[k].at - 1) :
            schema.refs[calls'[k].node][i].to \in types
    BY <1>1, <1>2, <2>1
  <2>4. QED
    BY <2>2, <2>3 DEF RefsCached, Refs
<1>9. QED
  BY <1>4, <1>5, <1>6, <1>7, <1>8 DEF LostInv

\* The top call returns: what it adapted, and what that refers to, is cached.
LEMMA LostReturn ==
    ASSUME NothingLost, Active, Finished, Return, UNCHANGED <<schema, roots>>,
           types' = IF Top.node \in Unions THEN types \cup {Top.node} ELSE types,
           Top.node \in Models => schema.addl[Top.node] \subseteq types,
           StillPushed, Untagged(schema, Top.node) => pushed'[Top.node] >= 1
    PROVE  LostInv'
<1> USE DEF NothingLost
<1>1. /\ Len(calls) \in Nat
      /\ Len(calls) \in 1..Len(calls)
      /\ Len(calls') = Len(calls) - 1
      /\ \A k \in 1..(Len(calls) - 1) : calls'[k] = calls[k]
      /\ Top = calls[Len(calls)]
      /\ Len(schema.refs[Top.node]) \in Nat
      /\ DOMAIN schema.refs[Top.node] = 1..Len(schema.refs[Top.node])
      /\ Top.at = Len(schema.refs[Top.node]) + 1
      /\ Top.node \in Nodes
  BY PoppedTop, TopFrame DEF Refs, Finished, Frame
<1>2. ASSUME NEW k \in 1..Len(calls')
      PROVE  k \in 1..Len(calls) /\ calls'[k] = calls[k]
  BY <1>1
<1>3. ASSUME NEW k \in 1..Len(calls)
      PROVE  calls[k] = Top \/ (k \in 1..Len(calls') /\ calls'[k] = calls[k])
  BY <1>1
<1>4. types \subseteq types'
  OBVIOUS
<1>5. \A x : Known(x)' <=> Known(x)
  BY DEF Known, IsRoot, Untagged
<1>6. ASSUME NEW u \in Unions, Met(u)
      PROVE  Met(u)'
  BY <1>3, <1>4, <1>6 DEF Met
<1>7. TypesKnown'
  <2>1. ASSUME NEW x \in types
        PROVE  Known(x)' \/ MetBase(x)'
    BY <1>5, <1>6 DEF TypesKnown, MetBase, BaseOf
  <2>2. ASSUME NEW u \in Unions, u = Top.node
        PROVE  Known(u)'
    BY <1>1, <1>5, <2>2 DEF TypesKnown
  <2>3. \A k \in 1..Len(calls') : calls'[k].node \in Unions => Known(calls[k].node)'
    BY <1>2, <1>5 DEF TypesKnown
  <2>4. QED
    BY <2>1, <2>2, <2>3 DEF TypesKnown
<1>8. RootsPushed'
  BY DEF RootsPushed, IsRoot, Untagged, StillPushed
<1>9. UntaggedPushed'
  BY DEF UntaggedPushed, Untagged, StillPushed, TypeOK
<1>10. BasesPushed'
  <2>1. ASSUME NEW u \in Unions, schema.kind[u] = "extensible", Seen(u)'
        PROVE  Seen(u)
    <3>1. CASE u = Top.node
      <4>1. Len(schema.refs[u]) # 0
        BY <2>1 DEF TypeOK, WellFormed
      <4>2. calls[Len(calls)].at > 1
        BY <1>1, <3>1, <4>1
      <4>3. QED
        BY <1>1, <3>1, <4>2 DEF Seen
    <3>2. CASE u # Top.node
      BY <1>2, <2>1, <3>2 DEF Seen
    <3>3. QED
      BY <3>1, <3>2
  <2>2. ASSUME NEW u \in Unions, schema.kind[u] = "extensible"
        PROVE  BaseOf(schema, u) \in Nodes
    BY <2>2 DEF TypeOK, WellFormed, BaseOf, Nodes
  <2>3. QED
    BY <2>1, <2>2 DEF BasesPushed, StillPushed, BaseOf
<1>11. RefsCached'
  <2>1. Successors(Top.node) \subseteq types
    <3>1. \A i \in DOMAIN schema.refs[Top.node] : schema.refs[Top.node][i].to \in types
      <4>1. \A i \in 1..(Top.at - 1) : schema.refs[Top.node][i].to \in types
        BY <1>1 DEF RefsCached, Refs
      <4>2. QED
        BY <1>1, <4>1
    <3>2. QED
      BY <3>1 DEF Successors, Refs
  <2>2. \A x : Successors(x)' = Successors(x)
    BY DEF Successors, Refs
  <2>3. ASSUME NEW x \in types'
        PROVE  \/ Successors(x)' \subseteq types'
               \/ \E k \in 1..Len(calls') : calls'[k].node = x
    <3>1. CASE x = Top.node
      BY <1>4, <2>1, <2>2, <3>1
    <3>2. CASE x # Top.node
      <4>1. x \in types
        BY <3>2
      <4>2. QED
        BY <1>3, <1>4, <2>2, <3>2, <4>1 DEF RefsCached
    <3>3. QED
      BY <3>1, <3>2
  <2>4. \A k \in 1..Len(calls') : \A i \in 1..(calls'[k].at - 1) :
            schema.refs[calls'[k].node][i].to \in types'
    BY <1>2, <1>4 DEF RefsCached, Refs
  <2>5. QED
    BY <2>3, <2>4 DEF RefsCached, Refs
<1>12. QED
  BY <1>7, <1>8, <1>9, <1>10, <1>11 DEF LostInv

LEMMA LostRegister ==
    ASSUME NothingLost, RegisterRoot
    PROVE  LostInv'
<1> USE DEF NothingLost
<1>1. /\ roots # <<>> /\ roots \in Seq(Nodes)
      /\ roots' = Tail(roots)
      /\ UNCHANGED <<schema, calls, types>>
      /\ pushed \in [Nodes -> Nat]
  BY DEF RegisterRoot, TypeOK
<1>2. /\ Head(roots) = roots[1] /\ Head(roots) \in Nodes
      /\ Len(roots) \in Nat /\ Len(roots') = Len(roots) - 1
      /\ \A i \in 1..Len(roots') : roots'[i] = roots[i + 1]
  BY <1>1
<1>3. pushed' = IF Untagged(schema, Head(roots)) THEN pushed
                ELSE [pushed EXCEPT ![Head(roots)] = @ + 1]
  BY DEF RegisterRoot, Untagged
<1>4. StillPushed /\ (~Untagged(schema, Head(roots)) => pushed'[Head(roots)] >= 1)
  BY <1>1, <1>2, <1>3 DEF StillPushed
<1>5. RootsPushed'
  <2>1. ASSUME NEW n \in Nodes, IsRoot(schema, n), ~Untagged(schema, n), ~(pushed'[n] >= 1)
        PROVE  \E i \in 1..Len(roots') : roots'[i] = n
    <3>1. PICK i \in 1..Len(roots) : roots[i] = n
      BY <1>4, <2>1 DEF RootsPushed, StillPushed
    <3>2. i # 1
      BY <1>2, <1>4, <2>1, <3>1
    <3>3. i - 1 \in 1..Len(roots') /\ i = (i - 1) + 1
      BY <1>2, <3>1, <3>2
    <3>4. QED
      BY <1>2, <3>1, <3>3
  <2>2. ASSUME NEW i \in 1..Len(roots')
        PROVE  IsRoot(schema, roots'[i])
    <3>1. i + 1 \in 1..Len(roots)
      BY <1>2
    <3>2. QED
      BY <1>2, <3>1 DEF RootsPushed
  <2>3. QED
    BY <1>1, <2>1, <2>2 DEF RootsPushed, IsRoot, Untagged
<1>6. TypesKnown' /\ RefsCached'
  BY <1>1 DEF TypesKnown, Known, MetBase, Met, IsRoot, Untagged, BaseOf, RefsCached,
              Successors, Refs
<1>7. UntaggedPushed'
  BY <1>1, <1>4 DEF UntaggedPushed, Untagged, StillPushed, TypeOK
<1>8. BasesPushed'
  <2>1. ASSUME NEW u \in Unions, schema.kind[u] = "extensible"
        PROVE  BaseOf(schema, u) \in Nodes
    BY <2>1 DEF TypeOK, WellFormed, BaseOf, Nodes
  <2>2. QED
    BY <1>1, <1>4, <2>1 DEF BasesPushed, StillPushed, Seen, BaseOf
<1>9. QED
  BY <1>5, <1>6, <1>7, <1>8 DEF LostInv

LEMMA LostStep == NothingLost /\ [Next]_vars => NothingLost'
<1> SUFFICES ASSUME NothingLost, [Next]_vars PROVE NothingLost'
  OBVIOUS
<1> USE DEF NothingLost
<1>1. TypeOK'
  BY TypeStep
<1>2. Listed(schema)'
  <2>1. schema' = schema
    BY DEF Next, VisitRoot, RegisterRoot, VisitProperty, AddField, VisitAddlProps,
           ModelReturns, VisitVariant, AddVariant, FixUpBase, UnionReturns,
           Terminated, GetType, GetModel, GetUnion, vars
  <2>2. QED
    BY <2>1 DEF Listed, IsBase, IsRoot, Untagged, BaseOf
<1>3. pushed \in [Nodes -> Nat]
  BY DEF TypeOK
<1>4. LostInv'
  <2>1. CASE VisitRoot
    <3>1. Len(roots) \in 1..Len(roots) /\ Head(roots) = roots[1] /\ Head(roots) \in Nodes
      BY <2>1 DEF VisitRoot, TypeOK
    <3>2. Known(Head(roots)) \/ (Head(roots) \in Models /\ MetBase(Head(roots)))
      BY <3>1 DEF Known, RootsPushed
    <3>3. QED
      BY <2>1, <3>1, <3>2, LostNewCall DEF VisitRoot
  <2>2. CASE RegisterRoot
    BY <2>2, LostRegister
  <2>3. CASE VisitProperty \/ VisitVariant
    <3>1. Active /\ ~Finished
      BY <2>3 DEF VisitProperty, VisitVariant, InModel, InUnion
    <3>2. Pending.to \in Nodes /\ Top.stack \in SUBSET Models
      BY <3>1, PendingRef
    <3>3. Known(Pending.to) \/ (Pending.to \in Models /\ MetBase(Pending.to))
      BY <3>1, PendingKnown
    <3>4. QED
      BY <2>3, <3>2, <3>3, LostNewCall DEF VisitProperty, VisitVariant
  <2>4. CASE AddField
    <3>1. Top.node \notin Unions
      BY <2>4, SchemasAssumption DEF AddField, InModel
    <3>2. QED
      BY <2>4, <3>1, LostAdvance DEF AddField, InModel, StillPushed
  <2>5. CASE VisitAddlProps
    <3>1. PICK n \in schema.addl[Top.node] : GetType(n, {})
      BY <2>5 DEF VisitAddlProps
    <3>2. Top.node \in Models
      BY <2>5 DEF VisitAddlProps, InModel
    <3>3. n \in Nodes /\ Known(n)
      BY <3>2 DEF TypeOK, WellFormed, Schema, Listed, Known
    <3>4. QED
      BY <3>1, <3>3, LostNewCall
  <2>6. CASE ModelReturns
    <3>1. Top.node \notin Unions
      BY <2>6, SchemasAssumption DEF ModelReturns, InModel
    <3>2. QED
      BY <2>6, <3>1, LostReturn DEF ModelReturns, InModel, StillPushed, Untagged
  <2>7. CASE AddVariant
    BY <2>7, LostAdvance DEF AddVariant, InUnion, StillPushed
  <2>8. CASE FixUpBase
    <3>1. Pending.to \in Nodes
      BY <2>8, PendingRef DEF FixUpBase, InUnion
    <3>2. StillPushed /\ pushed'[Pending.to] >= 1
      BY <1>3, <2>8, <3>1 DEF FixUpBase, StillPushed
    <3>3. QED
      BY <2>8, <3>2, LostAdvance DEF FixUpBase, InUnion
  <2>9. CASE UnionReturns
    <3>1. Top.node \in Unions /\ Top.node \notin Models /\ Top.node \in Nodes
      BY <2>9, SchemasAssumption DEF UnionReturns, InUnion, Nodes
    <3>2. StillPushed /\ (Untagged(schema, Top.node) => pushed'[Top.node] >= 1)
      BY <1>3, <2>9, <3>1 DEF UnionReturns, StillPushed, Untagged
    <3>3. QED
      BY <2>9, <3>1, <3>2, LostReturn DEF UnionReturns, InUnion
  <2>10. CASE UNCHANGED vars
    BY <2>10 DEF vars, LostInv, TypesKnown, Known, MetBase, Met, IsRoot, Untagged, BaseOf,
                 RootsPushed, UntaggedPushed, BasesPushed, Seen, RefsCached, Successors, Refs
  <2>11. QED
    BY <2>1, <2>2, <2>3, <2>4, <2>5, <2>6, <2>7, <2>8, <2>9, <2>10 DEF Next, Terminated
<1>5. QED
  BY <1>1, <1>2, <1>4 DEF LostInv

\* When adaptTypes ends, every type that was adapted has been pushed into a
\* module and everything it refers to has been adapted, on any type graph whose
\* package lists what others refer to; cycles of any kind included.
THEOREM EveryTypeIsPushed ==
    ASSUME \A s \in Schemas : Listed(s)
    PROVE  Spec => []NothingMissing
<1>1. Init => NothingLost
  BY LostInit
<1>2. NothingLost /\ [Next]_vars => NothingLost'
  BY LostStep
<1>3. NothingLost => NothingMissing
  <2> SUFFICES ASSUME NothingLost, Done, NEW n \in types
               PROVE  pushed[n] >= 1 /\ Successors(n) \subseteq types
    BY DEF NothingMissing
  <2> USE DEF NothingLost
  <2>1. Len(calls) = 0 /\ Len(roots) = 0 /\ n \in Nodes
    BY DEF Done, Active, TypeOK
  <2>2. Successors(n) \subseteq types
    BY <2>1 DEF RefsCached
  <2>3. CASE Known(n)
    <3>1. CASE Untagged(schema, n)
      BY <2>2, <3>1 DEF UntaggedPushed
    <3>2. CASE IsRoot(schema, n) /\ ~Untagged(schema, n)
      BY <2>1, <2>2, <3>2 DEF RootsPushed
    <3>3. QED
      BY <2>3, <3>1, <3>2 DEF Known
  <2>4. CASE MetBase(n)
    <3>1. PICK u \in Unions : schema.kind[u] = "extensible" /\ BaseOf(schema, u) = n /\ Met(u)
      BY <2>4 DEF MetBase
    <3>2. Seen(u)
      BY <2>1, <3>1 DEF Met, Seen
    <3>3. QED
      BY <2>2, <3>1, <3>2 DEF BasesPushed
  <2>5. QED
    BY <2>2, <2>3, <2>4 DEF TypesKnown
<1>4. QED
  BY <1>1, <1>2, <1>3, PTL DEF Spec

----------------------------------------------------------------------------
(* Nothing is pushed twice. *)

\* No root comes twice.
RootsOnce == \A i, j \in 1..Len(roots) : roots[i] = roots[j] => i = j

\* What has still to be pushed has not been pushed yet.
PushedOnce ==
    \A n \in Nodes :
        /\ pushed[n] <= 1
        /\ Untagged(schema, n) => n \in types \/ pushed[n] = 0
        /\ ~Untagged(schema, n) => \A i \in 1..Len(roots) : roots[i] = n => pushed[n] = 0

\* A model Unknown<Name> is pushed when no call will add a field to it.
BasesFixed ==
    \A u \in Unions : schema.kind[u] = "extensible" /\ pushed[BaseOf(schema, u)] >= 1 =>
        /\ BaseOf(schema, u) \in Closed
        /\ \A i \in DOMAIN fields[BaseOf(schema, u)] : fields[BaseOf(schema, u)][i].ref

NothingTwice == Inv /\ NothingLost /\ RootsOnce /\ PushedOnce /\ BasesFixed

\* A type nothing will be added to stays one.
LEMMA ClosedStays == Inv /\ [Next]_vars => Closed \subseteq Closed'
<1> SUFFICES ASSUME Inv, [Next]_vars PROVE Closed \subseteq Closed'
  OBVIOUS
<1> USE DEF Inv
<1>1. ASSUME NEW n \in Nodes, NEW stack \in SUBSET Models, GetType(n, stack)
      PROVE  Closed \subseteq Closed'
  <2>1. /\ n \notin types /\ types \subseteq types' /\ schema' = schema
        /\ Len(calls) \in Nat
        /\ Len(calls') = Len(calls) + 1
        /\ \A k \in 1..Len(calls) : calls'[k] = calls[k]
        /\ calls'[Len(calls) + 1] = NewFrame(n, stack)
        /\ NewFrame(n, stack).node = n
    <3>1. NewFrame(n, stack).node = n
      BY DEF NewFrame
    <3>2. QED
      BY <1>1, <3>1, NewCall
  <2>2. ASSUME NEW x \in Closed, NEW k \in 1..Len(calls'), calls'[k].node = x
        PROVE  ~Open(k)'
    <3>1. k \in 1..Len(calls) /\ calls'[k] = calls[k]
      BY <2>1, <2>2 DEF Closed
    <3>2. ~Open(k)
      BY <2>2, <3>1 DEF Closed
    <3>3. QED
      BY <2>1, <3>1, <3>2 DEF Open, Refs
  <2>3. QED
    BY <2>1, <2>2 DEF Closed
<1>2. CASE VisitRoot
  <2>1. Head(roots) \in Nodes
    BY <1>2 DEF VisitRoot, TypeOK
  <2>2. QED
    BY <1>1, <1>2, <2>1 DEF VisitRoot
<1>3. CASE VisitProperty \/ VisitVariant
  <2>1. Pending.to \in Nodes /\ Top.stack \in SUBSET Models
    BY <1>3, PendingRef DEF VisitProperty, VisitVariant, InModel, InUnion
  <2>2. QED
    BY <1>1, <1>3, <2>1 DEF VisitProperty, VisitVariant
<1>4. CASE VisitAddlProps
  <2>1. Top.node \in Models
    BY <1>4 DEF VisitAddlProps, InModel
  <2>2. schema.addl[Top.node] \in SUBSET Nodes
    BY <2>1 DEF TypeOK, WellFormed, Schema
  <2>3. QED
    BY <1>1, <1>4, <2>2 DEF VisitAddlProps
<1>5. CASE AddField
  BY <1>5, InvAdvance, SchemasAssumption DEF AddField, InModel
<1>6. CASE AddVariant \/ FixUpBase
  <2>1. Active /\ ~Finished /\ Pending.to \in types /\ Top.node \notin Models
    BY <1>6, SchemasAssumption DEF AddVariant, FixUpBase, InUnion
  <2>2. Pending.to \in Closed
    BY <2>1, PendingClosed
  <2>3. QED
    BY <1>6, <2>1, <2>2, InvAdvance DEF AddVariant, FixUpBase
<1>7. CASE ModelReturns
  BY <1>7, InvReturn, SchemasAssumption DEF ModelReturns, InModel
<1>8. CASE UnionReturns
  BY <1>8, InvReturn DEF UnionReturns, InUnion
<1>9. CASE RegisterRoot \/ UNCHANGED vars
  <2>1. UNCHANGED <<schema, calls, types>>
    BY <1>9 DEF RegisterRoot, vars
  <2>2. QED
    BY <2>1 DEF Closed, Open, Refs
<1>10. QED
  BY <1>2, <1>3, <1>4, <1>5, <1>6, <1>7, <1>8, <1>9 DEF Next, Terminated

\* The base of an extensible union is a model that the package does not list.
LEMMA BaseFacts ==
    ASSUME NothingLost, NEW u \in Unions, schema.kind[u] = "extensible"
    PROVE  /\ BaseOf(schema, u) \in Models
           /\ BaseOf(schema, u) \in Nodes
           /\ ~Untagged(schema, BaseOf(schema, u))
           /\ ~IsRoot(schema, BaseOf(schema, u))
<1>1. BaseOf(schema, u) \in Models
  BY DEF NothingLost, TypeOK, WellFormed, BaseOf
<1>2. ~IsRoot(schema, BaseOf(schema, u))
  BY DEF NothingLost, Listed, IsBase, IsRoot
<1>3. QED
  BY <1>1, <1>2, SchemasAssumption DEF Untagged, Nodes

\* Nothing is pushed and the roots stay.
LEMMA TwiceQuiet ==
    ASSUME NothingTwice, UNCHANGED <<schema, roots, pushed>>, types \subseteq types'
    PROVE  RootsOnce' /\ PushedOnce'
BY DEF NothingTwice, RootsOnce, PushedOnce, Untagged

LEMMA TwiceRegister ==
    ASSUME NothingTwice, RegisterRoot
    PROVE  RootsOnce' /\ PushedOnce'
<1> USE DEF NothingTwice, NothingLost
<1>1. /\ roots # <<>> /\ roots \in Seq(Nodes)
      /\ UNCHANGED <<schema, types>>
      /\ pushed \in [Nodes -> Nat]
      /\ pushed' = IF Untagged(schema, Head(roots)) THEN pushed
                   ELSE [pushed EXCEPT ![Head(roots)] = @ + 1]
  BY DEF RegisterRoot, TypeOK, Untagged
<1>2. /\ Head(roots) = roots[1] /\ Head(roots) \in Nodes
      /\ Len(roots) \in Nat /\ 1 \in 1..Len(roots)
      /\ Len(roots') = Len(roots) - 1
      /\ \A i \in 1..Len(roots') : roots'[i] = roots[i + 1]
  BY DEF RegisterRoot, TypeOK
<1>3. ASSUME NEW i \in 1..Len(roots')
      PROVE  i + 1 \in 1..Len(roots) /\ i + 1 # 1 /\ roots'[i] = roots[i + 1]
  BY <1>2
<1>4. RootsOnce'
  <2>1. ASSUME NEW i \in 1..Len(roots'), NEW j \in 1..Len(roots'), roots'[i] = roots'[j]
        PROVE  i = j
    <3>1. i + 1 = j + 1
      BY <1>3, <2>1 DEF RootsOnce
    <3>2. i \in Nat /\ j \in Nat
      BY <1>2
    <3>3. QED
      BY <3>1, <3>2
  <2>2. QED
    BY <2>1 DEF RootsOnce
<1>5. ASSUME NEW n \in Nodes
      PROVE  /\ pushed'[n] <= 1
             /\ Untagged(schema, n) => n \in types \/ pushed'[n] = 0
             /\ ~Untagged(schema, n) =>
                   \A i \in 1..Len(roots') : roots'[i] = n => pushed'[n] = 0
  <2>1. CASE n = Head(roots) /\ ~Untagged(schema, n)
    <3>1. pushed[n] = 0 /\ pushed'[n] = 1
      BY <1>1, <1>2, <2>1 DEF PushedOnce
    <3>2. \A i \in 1..Len(roots') : roots'[i] # n
      BY <1>2, <1>3, <2>1 DEF RootsOnce
    <3>3. QED
      BY <2>1, <3>1, <3>2
  <2>2. CASE n # Head(roots) \/ Untagged(schema, n)
    <3>1. pushed'[n] = pushed[n]
      BY <1>1, <2>2
    <3>2. QED
      BY <1>3, <3>1 DEF PushedOnce
  <2>3. QED
    BY <2>1, <2>2
<1>6. QED
  BY <1>1, <1>4, <1>5 DEF PushedOnce, Untagged

LEMMA TwiceUnionReturns ==
    ASSUME NothingTwice, UnionReturns
    PROVE  RootsOnce' /\ PushedOnce'
<1> USE DEF NothingTwice, NothingLost
<1>1. /\ Top.node \in Unions /\ Top.node \in Nodes /\ Top.node \notin types
  <2>1. Top.node \in Unions /\ Top.node \notin Models /\ Active
    BY SchemasAssumption DEF UnionReturns, InUnion
  <2>2. Top.node \notin types
    BY <2>1, TopFrame DEF Inv, CallStackInv, FramesOK
  <2>3. QED
    BY <2>1, <2>2 DEF Nodes
<1>2. /\ UNCHANGED <<schema, roots>> /\ types' = types \cup {Top.node}
      /\ pushed \in [Nodes -> Nat]
      /\ pushed' = IF Untagged(schema, Top.node)
                   THEN [pushed EXCEPT ![Top.node] = @ + 1] ELSE pushed
  BY <1>1 DEF UnionReturns, Untagged, TypeOK
<1>3. ASSUME NEW n \in Nodes
      PROVE  /\ pushed'[n] <= 1
             /\ Untagged(schema, n) => n \in types' \/ pushed'[n] = 0
             /\ ~Untagged(schema, n) => pushed'[n] = pushed[n]
  <2>1. CASE n = Top.node /\ Untagged(schema, n)
    <3>1. pushed[n] = 0
      BY <1>1, <2>1 DEF PushedOnce
    <3>2. QED
      BY <1>2, <2>1, <3>1
  <2>2. CASE n # Top.node \/ ~Untagged(schema, n)
    <3>1. pushed'[n] = pushed[n]
      BY <1>2, <2>2
    <3>2. QED
      BY <1>2, <3>1 DEF PushedOnce
  <2>3. QED
    BY <2>1, <2>2
<1>4. QED
  BY <1>2, <1>3 DEF RootsOnce, PushedOnce, Untagged

LEMMA TwiceFixUp ==
    ASSUME NothingTwice, FixUpBase
    PROVE  RootsOnce' /\ PushedOnce'
<1> USE DEF NothingTwice, NothingLost
<1>1. /\ Top.node \in Unions /\ schema.kind[Top.node] = "extensible"
      /\ Pending.to = BaseOf(schema, Top.node)
  BY DEF FixUpBase, InUnion, AtBase, Pending, BaseOf, Refs
<1>2. /\ Pending.to \in Nodes
      /\ ~Untagged(schema, Pending.to)
      /\ ~IsRoot(schema, Pending.to)
  BY <1>1, BaseFacts
<1>3. /\ UNCHANGED <<schema, roots, types>>
      /\ pushed \in [Nodes -> Nat]
      /\ pushed' = IF pushed[Pending.to] = 0 THEN [pushed EXCEPT ![Pending.to] = 1] ELSE pushed
  BY DEF FixUpBase, TypeOK
<1>4. ASSUME NEW n \in Nodes
      PROVE  /\ pushed'[n] <= 1
             /\ n # Pending.to => pushed'[n] = pushed[n]
  BY <1>2, <1>3 DEF PushedOnce
<1>5. \A i \in 1..Len(roots) : roots[i] # Pending.to
  BY <1>2 DEF RootsPushed
<1>6. QED
  BY <1>2, <1>3, <1>4, <1>5 DEF RootsOnce, PushedOnce, Untagged

\* No field is added to a model that is fixed up, and none is fixed up early.
LEMMA BasesStayFixed ==
    ASSUME NothingTwice, [Next]_vars
    PROVE  BasesFixed'
<1> USE DEF NothingTwice, NothingLost
<1>1. Closed \subseteq Closed' /\ schema' = schema
  <2>1. Closed \subseteq Closed'
    BY ClosedStays
  <2>2. schema' = schema
    BY DEF Next, VisitRoot, RegisterRoot, VisitProperty, AddField, VisitAddlProps,
           ModelReturns, VisitVariant, AddVariant, FixUpBase, UnionReturns,
           Terminated, GetType, GetModel, GetUnion, vars
  <2>3. QED
    BY <2>1, <2>2
<1> DEFINE Fixed(b) == b \in Closed /\ \A i \in DOMAIN fields[b] : fields[b][i].ref
           Fixed2(b) == b \in Closed' /\ \A i \in DOMAIN fields'[b] : fields'[b][i].ref
<1>2. SUFFICES ASSUME NEW u \in Unions, schema.kind[u] = "extensible",
                      NEW b, b = BaseOf(schema, u), pushed'[b] >= 1
               PROVE  Fixed2(b)
  BY <1>1 DEF BasesFixed, BaseOf
<1>3. b \in Models /\ b \in Nodes /\ ~Untagged(schema, b) /\ ~IsRoot(schema, b)
  BY <1>2, BaseFacts
<1>4. pushed[b] >= 1 => Fixed(b)
  BY <1>2 DEF BasesFixed
<1>5. /\ pushed \in [Nodes -> Nat]
      /\ fields \in [Models -> Seq(FieldRec)]
  BY DEF TypeOK
\* Neither the fields of b nor whether it is pushed changes.
<1>6. ASSUME pushed'[b] = pushed[b], fields'[b] = fields[b]
      PROVE  Fixed2(b)
  BY <1>1, <1>2, <1>4, <1>6
<1>7. CASE VisitRoot \/ VisitProperty \/ VisitVariant \/ VisitAddlProps \/ ModelReturns
           \/ AddVariant \/ UNCHANGED vars
  <2>1. UNCHANGED <<fields, pushed>>
    BY <1>7 DEF VisitRoot, VisitProperty, VisitVariant, VisitAddlProps, ModelReturns,
                AddVariant, GetType, GetModel, GetUnion, vars
  <2>2. QED
    BY <1>6, <2>1
<1>8. CASE RegisterRoot
  <2>1. b # Head(roots)
    <3>1. Len(roots) # 0 /\ Len(roots) \in Nat /\ Head(roots) = roots[1]
      BY <1>8 DEF RegisterRoot, TypeOK
    <3>2. 1 \in 1..Len(roots)
      BY <3>1
    <3>3. QED
      BY <1>3, <3>1, <3>2 DEF RootsPushed
  <2>2. pushed'[b] = pushed[b] /\ fields' = fields
    BY <1>3, <1>5, <1>8, <2>1 DEF RegisterRoot
  <2>3. QED
    BY <1>6, <2>2
<1>9. CASE UnionReturns
  <2>1. b # Top.node
    BY <1>3, <1>9, SchemasAssumption DEF UnionReturns, InUnion
  <2>2. pushed'[b] = pushed[b] /\ fields' = fields
    BY <1>5, <1>9, <2>1 DEF UnionReturns
  <2>3. QED
    BY <1>6, <2>2
<1>10. CASE AddField
  <2>1. Active /\ ~Finished /\ Top.node \in Models /\ pushed' = pushed
    BY <1>10 DEF AddField, InModel
  <2>2. Top.node \notin Closed
    <3>1. Top.at \in 1..Len(Refs(Top.node)) /\ Len(calls) \in 1..Len(calls)
          /\ Top = calls[Len(calls)] /\ Len(Refs(Top.node)) \in Nat
      BY <2>1, PendingRef, TopFrame
    <3>2. Open(Len(calls))
      BY <2>1, <3>1 DEF Open
    <3>3. QED
      BY <3>1, <3>2 DEF Closed
  <2>3. b # Top.node
    BY <1>2, <1>4, <2>1, <2>2
  <2>4. fields'[b] = fields[b]
    BY <1>3, <1>5, <1>10, <2>3 DEF AddField
  <2>5. QED
    BY <1>6, <2>1, <2>4
<1>11. CASE FixUpBase
  <2>1. CASE b # Pending.to \/ pushed[Pending.to] # 0
    <3>1. pushed'[b] = pushed[b] /\ fields'[b] = fields[b]
      BY <1>3, <1>5, <1>11, <2>1 DEF FixUpBase
    <3>2. QED
      BY <1>6, <3>1
  <2>2. CASE b = Pending.to /\ pushed[b] = 0
    <3>1. Active /\ ~Finished /\ b \in types /\ Top.node \notin Models
      BY <1>11, <2>2, SchemasAssumption DEF FixUpBase, InUnion
    <3>2. b \in Closed
      BY <2>2, <3>1, PendingClosed
    <3>3. fields'[b] = [i \in DOMAIN fields[b] |-> [fields[b][i] EXCEPT !.ref = TRUE]]
      BY <1>3, <1>5, <1>11, <2>2 DEF FixUpBase
    <3>4. ASSUME NEW i \in DOMAIN fields[b]
          PROVE  fields'[b][i].ref
      <4>1. fields[b][i] \in FieldRec
        BY <1>3, <1>5
      <4>2. QED
        BY <3>3, <4>1 DEF FieldRec
    <3>5. DOMAIN fields'[b] = DOMAIN fields[b]
      BY <3>3
    <3>6. QED
      BY <1>1, <3>2, <3>4, <3>5
  <2>3. QED
    BY <2>1, <2>2
<1>12. QED
  BY <1>7, <1>8, <1>9, <1>10, <1>11 DEF Next, Terminated

LEMMA TwiceInit ==
    (\A s \in Schemas : Stratified(s) /\ Listed(s)) /\ Init => NothingTwice
<1> SUFFICES ASSUME \A s \in Schemas : Stratified(s) /\ Listed(s), Init
             PROVE  NothingTwice
  OBVIOUS
<1>1. Inv /\ NothingLost
  BY InvInit, LostInit
<1>2. \A n \in Nodes : pushed[n] = 0
  BY DEF Init
<1>3. RootsOnce
  <2>1. roots = schema.roots /\ DOMAIN roots = 1..Len(roots)
    BY <1>1 DEF Init, Inv, TypeOK
  <2>2. QED
    BY <1>1, <2>1 DEF RootsOnce, NothingLost, Listed
<1>4. PushedOnce
  BY <1>2 DEF PushedOnce
<1>5. BasesFixed
  <2>1. \A u \in Unions : schema.kind[u] = "extensible" => BaseOf(schema, u) \in Nodes
    BY <1>1, BaseFacts
  <2>2. QED
    BY <1>2, <2>1 DEF BasesFixed
<1>6. QED
  BY <1>1, <1>3, <1>4, <1>5 DEF NothingTwice

LEMMA TwiceStep == NothingTwice /\ [Next]_vars => NothingTwice'
<1> SUFFICES ASSUME NothingTwice, [Next]_vars PROVE NothingTwice'
  OBVIOUS
<1>1. Inv' /\ NothingLost'
  BY InvStep, LostStep DEF NothingTwice
<1>2. BasesFixed'
  BY BasesStayFixed
<1>3. RootsOnce' /\ PushedOnce'
  <2>1. CASE VisitRoot \/ VisitProperty \/ VisitVariant \/ VisitAddlProps \/ ModelReturns
             \/ AddField \/ AddVariant \/ UNCHANGED vars
    <3>1. UNCHANGED <<schema, roots, pushed>> /\ types \subseteq types'
      BY <2>1 DEF VisitRoot, VisitProperty, VisitVariant, VisitAddlProps, ModelReturns,
                  AddField, AddVariant, GetType, GetModel, GetUnion, vars
    <3>2. QED
      BY <3>1, TwiceQuiet
  <2>2. CASE RegisterRoot
    BY <2>2, TwiceRegister
  <2>3. CASE UnionReturns
    BY <2>3, TwiceUnionReturns
  <2>4. CASE FixUpBase
    BY <2>4, TwiceFixUp
  <2>5. QED
    BY <2>1, <2>2, <2>3, <2>4 DEF Next, Terminated
<1>4. QED
  BY <1>1, <1>2, <1>3 DEF NothingTwice

\* No type is pushed into its module twice, whoever pushes it: adaptTypes, the
\* untagged union itself, or the union whose Unknown<Name> it is.
THEOREM PushedAtMostOnce ==
    ASSUME \A s \in Schemas : Stratified(s) /\ Listed(s)
    PROVE  Spec => []RegisteredOnce
<1>1. Init => NothingTwice
  BY TwiceInit
<1>2. NothingTwice /\ [Next]_vars => NothingTwice'
  BY TwiceStep
<1>3. NothingTwice => RegisteredOnce
  BY DEF NothingTwice, PushedOnce, RegisteredOnce
<1>4. QED
  BY <1>1, <1>2, <1>3, PTL DEF Spec

\* The model Unknown<Name> of a cached union has been pushed, and all of its
\* fields are references: none is added after they were fixed up.
THEOREM UnknownModelsFixed ==
    ASSUME \A s \in Schemas : Stratified(s) /\ Listed(s)
    PROVE  Spec => []BaseFieldsAreRefs
<1>1. Init => NothingTwice
  BY TwiceInit
<1>2. NothingTwice /\ [Next]_vars => NothingTwice'
  BY TwiceStep
<1>3. NothingTwice => BaseFieldsAreRefs
  <2> SUFFICES ASSUME NothingTwice, NEW u \in Unions, schema.kind[u] = "extensible", u \in types,
                      NEW b, b = BaseOf(schema, u)
               PROVE  pushed[b] = 1 /\ \A i \in DOMAIN fields[b] : fields[b][i].ref
    BY DEF BaseFieldsAreRefs, BaseOf, Refs
  <2>1. pushed[b] >= 1
    BY DEF NothingTwice, NothingLost, BasesPushed, Seen
  <2>2. b \in Nodes /\ pushed[b] <= 1 /\ pushed[b] \in Nat
    BY BaseFacts DEF NothingTwice, PushedOnce, NothingLost, TypeOK
  <2>3. QED
    BY <2>1, <2>2 DEF NothingTwice, BasesFixed
<1>4. QED
  BY <1>1, <1>2, <1>3, PTL DEF Spec
=============================================================================
