----------------------------- MODULE Operation -----------------------------
(***************************************************************************)
(* What a poller promises the caller of a long-running operation: one      *)
(* outcome, which is that of the operation or an error, is told once and   *)
(* never revised, and the result comes once, of an operation that has      *)
(* succeeded.  Links, polls and the status on the way do not show.         *)
(***************************************************************************)

VARIABLES op,        \* the operation at the service
          outcome,   \* what the caller has been told
          delivered  \* whether the caller has got the result

facts == <<op, outcome, delivered>>

NotStarted == op = "none" /\ outcome = "none" /\ ~delivered

\* The operation may be over by the time the caller hears of it.
Begin == /\ op = "none" /\ outcome = "none"
         /\ op' \in {"running", "succeeded", "failed"}
         /\ UNCHANGED <<outcome, delivered>>

End == /\ op = "running" /\ op' \in {"succeeded", "failed"}
       /\ UNCHANGED <<outcome, delivered>>

\* A caller who is told of the success gets the result with it or later.
TellSuccess == /\ outcome = "none" /\ op = "succeeded"
               /\ outcome' = "succeeded" /\ delivered' \in BOOLEAN
               /\ UNCHANGED op

TellOtherwise == /\ outcome = "none"
                 /\ \/ outcome' = "done" /\ op = "failed"
                    \/ outcome' = "error"
                 /\ UNCHANGED <<op, delivered>>

Deliver == /\ outcome = "succeeded" /\ ~delivered
           /\ delivered'
           /\ UNCHANGED <<op, outcome>>

Step == Begin \/ End \/ TellSuccess \/ TellOtherwise \/ Deliver

Watched == NotStarted /\ [][Step]_facts
=============================================================================
