------------------------------ MODULE HttpCall ------------------------------
(***************************************************************************)
(* What a client method promises: what the caller and the client give for  *)
(* the parameters of an operation is sent in one request, each where the   *)
(* operation has it, or the call is refused because a part of the path     *)
(* would be empty.  MethodCall describes methods in the same way.          *)
(***************************************************************************)
EXTENDS Sequences, SequencesExt

CONSTANT Methods

VARIABLES method, given, outcome, request

vars == <<method, given, outcome, request>>

Segments == UNION {o.segments : o \in method.ops}

NotSent == [s \in {} |-> "absent"]

Init == /\ method \in Methods
        /\ given = NotSent
        /\ outcome = "none" /\ request = [n \in {} |-> NotSent]

BodyGiven(g) == \E o \in method.ops : o.kind = "body" /\ \E s \in o.segments : g[s] # "absent"

IsRefused(g) == \E o \in method.ops : \E s \in o.segments :
    /\ o.kind = "path" /\ o.type = "text" /\ ~o.client /\ ~o.mayBeEmpty
    /\ ~Last(s).optional /\ g[s] = "empty"

\* The id of the request is the pipeline's business; an optional content type
\* goes with the body.
IsLeftOut(o, g) ==
    \/ o.kind = "header" /\ o.name = "x-ms-client-request-id"
    \/ o.kind = "header" /\ o.name = "content-type" /\ o.optional /\ ~BodyGiven(g)
    \/ /\ o.optional /\ o.type # "constant" /\ o.kind # "path"
       /\ \A s \in o.segments : g[s] = "absent"

\* An optional part of the path may be left out of it.
Promised(o, g) ==
    IF IsLeftOut(o, g) THEN NotSent
    ELSE [s \in o.segments |-> IF o.type = "constant" THEN "some"
                               ELSE IF o.kind = "path" /\ g[s] = "absent" THEN "empty" ELSE g[s]]

Give == /\ outcome = "none" /\ outcome' = "given"
        /\ given' \in [Segments -> {"some", "absent", "empty"}]
        /\ \A s \in Segments : given'[s] = "absent" => Last(s).optional
        /\ UNCHANGED <<method, request>>

Refuse == /\ outcome = "given" /\ IsRefused(given)
          /\ outcome' = "refused"
          /\ UNCHANGED <<method, given, request>>

Send == /\ outcome = "given" /\ ~IsRefused(given)
        /\ outcome' = "sent"
        /\ request' = [n \in {o.name : o \in method.ops} |->
                          Promised(CHOOSE o \in method.ops : o.name = n, given)]
        /\ UNCHANGED <<method, given>>

Next == Give \/ Refuse \/ Send

Spec == Init /\ [][Next]_vars
=============================================================================
